---- MODULE Spec2Model ----
(***************************************************************************)
(* INEVITABILITY: the causal analysis engine (backend/*.py) as a state     *)
(* machine.  The state is one analysis: the CausalGraph, the structural    *)
(* equations SCMBuilder derives from it, and the record of the operation   *)
(* that ran last.  Scores are kept in hundredths (0..100) together with    *)
(* the exact fraction they were rounded from.                              *)
(***************************************************************************)
EXTENDS Integers, Sequences, FiniteSets, TLC

VARIABLES
    graph,        \* CausalGraph: [nodes: Seq(InfraNode), edges: set of InfraEdge]
    node_text,    \* the strings InfraNode.id and InfraNode.name of every node and
                  \* its annual_cost; elsewhere a node is known by its position
                  \* in the node list
    equations,    \* SCM.equations, or "unbuilt" before SCMBuilder.build
    assumptions,  \* SCM.assumptions, empty before SCMBuilder.build
    z3_unknown,   \* intervention maps on which Solver.check() gives up (timeout)
    goals,        \* the goals of the analysis, in request order
    solver,       \* "none", or "constructed" once CausalSolver(scm) has run
    solver_called,      \* whether check_satisfiability has been called
    frames,             \* simulate_collapse: the CollapseFrames emitted so far
    disabled_controls,  \* simulate_collapse: the growing intervention map
    already_disabled,   \* simulate_collapse: ids of the controls disabled so far
    step_counter,       \* simulate_collapse: number of the last step
    request,      \* the CustomAnalysisRequest being served, if any
    sessions,     \* _active_sessions: the cached sessions, each under its analysis id
    other,        \* a second analysis, of a graph object of its own, served
                  \* while this one is under way
    caller_args,  \* the intervention maps the caller handed to the last query,
                  \* as the query left them
    pc,           \* position of the caller
    last          \* record of the operation that ran last

scmVars == <<graph, node_text, equations, assumptions, z3_unknown, goals>>
collapseVars == <<frames, disabled_controls, already_disabled, step_counter>>
apiVars == <<request, sessions, other, caller_args>>
vars == <<scmVars, solver, solver_called, collapseVars, apiVars, pc, last>>

(***************************************************************************)
(* Bounds of the model.                                                    *)
(***************************************************************************)
NumNodes == 3          \* nodes of an exhaustively enumerated small graph
MaxIdentities == 3     \* identities of a fan graph
MaxControls == 2       \* controls of a fan graph
MaxPins == 2           \* nodes an intervention map pins
MaxApiNodes == 2       \* nodes of a custom analysis request
MaxApiEdges == 2       \* edges of a custom analysis request

(***************************************************************************)
(* models.py: enums and graph queries.                                     *)
(***************************************************************************)
NodeType == {"asset", "identity", "control"}
\* the edge types the graphs below are drawn from: a control edge, and one of
\* the others (access, lateral, ...), which the equations treat alike
EdgeType == {"access", "control"}
ControlState == {"active", "inactive", "partial", "unknown"}
NoState == "none"      \* control_state: Optional[ControlState] = None

NodeIds(g) == {g.nodes[i].id : i \in DOMAIN g.nodes}

get_node(g, node_id) ==
    LET hits == {i \in DOMAIN g.nodes : g.nodes[i].id = node_id}
    IN  g.nodes[CHOOSE i \in hits : \A j \in hits : i <= j]

\* list comprehension over g.nodes: the positions of the Control nodes, in order
ControlPositions(g) == {i \in DOMAIN g.nodes : g.nodes[i].type = "control"}

get_controls(g) == {g.nodes[i].id : i \in ControlPositions(g)}

get_edges_to(g, node_id) == {e \in g.edges : e.target = node_id}

get_parents(g, node_id) == {e.source : e \in get_edges_to(g, node_id)}

get_children(g, node_id) == {e.target : e \in {d \in g.edges : d.source = node_id}}

\* position of a node id in the node list (ids are unique in the graphs drawn)
PosOf(g, node_id) == CHOOSE i \in DOMAIN g.nodes : g.nodes[i].id = node_id

(***************************************************************************)
(* scm_builder.py                                                          *)
(***************************************************************************)
\* edges s -> t closed under composition, as a set of pairs
RECURSIVE ReachFrom(_, _, _)
ReachFrom(g, frontier, seen) ==
    LET next == {e.target : e \in {d \in g.edges : d.source \in frontier}} \ seen
    IN  IF next = {} THEN seen ELSE ReachFrom(g, next, seen \cup next)

Descendants(g, n) == ReachFrom(g, {n}, {})

EndPoints(g) == {e.source : e \in g.edges} \cup {e.target : e \in g.edges}

\* nx.is_directed_acyclic_graph
is_directed_acyclic_graph(g) == \A n \in EndPoints(g) : n \notin Descendants(g, n)

\* equations in which no control blocks anything
_generate_equations_without_blockers(g) ==
    {[target_variable |-> g.nodes[i].id,
      parent_variables |->
          {e.source : e \in {d \in get_edges_to(g, g.nodes[i].id) :
              ~(d.source \in get_controls(g) /\ d.edge_type = "control")}},
      negated_parents |-> {}] :
        i \in {j \in DOMAIN g.nodes : get_parents(g, g.nodes[j].id) # {}}}

\* SCMBuilder._generate_equations: one equation per node with parents
_generate_equations(g) ==
    {[target_variable |-> g.nodes[i].id,
      parent_variables |->
          {e.source : e \in {d \in get_edges_to(g, g.nodes[i].id) :
              ~(d.source \in get_controls(g) /\ d.edge_type = "control")}},
      negated_parents |->
          {e.source : e \in {d \in get_edges_to(g, g.nodes[i].id) :
              d.source \in get_controls(g) /\ d.edge_type = "control"}}]
     : i \in {j \in DOMAIN g.nodes : get_parents(g, g.nodes[j].id) # {}}}

\* strings are sequences of characters
Digit(n) == <<"0", "1", "2", "3", "4", "5", "6", "7", "8", "9">>[n + 1]

\* annual_cost: Optional[float] = None
NoCost == -1

\* the ids and names nodes carry when nothing is said about them: n<i>, N<i>,
\* and no annual_cost
DefaultText(nodes) ==
    [i \in DOMAIN nodes |->
        [id |-> <<"n", Digit(i)>>, name |-> <<"N", Digit(i)>>, annual_cost |-> NoCost]]

\* f"ctrl_assumption_{node.id}"
CtrlAssumptionId(id) ==
    <<"c", "t", "r", "l", "_", "a", "s", "s", "u", "m", "p", "t", "i", "o", "n", "_">> \o id

\* ControlState.value
StateValue(control_state) ==
    IF control_state = "active" THEN <<"a", "c", "t", "i", "v", "e">>
    ELSE IF control_state = "inactive" THEN <<"i", "n", "a", "c", "t", "i", "v", "e">>
    ELSE IF control_state = "partial" THEN <<"p", "a", "r", "t", "i", "a", "l">>
    ELSE <<"u", "n", "k", "n", "o", "w", "n">>

\* f"{node.name}_is_{node.control_state.value}"
CtrlAssumptionName(name, control_state) ==
    name \o <<"_", "i", "s", "_">> \o StateValue(control_state)

\* the loop over the nodes that adds the control-state assumptions; `seen`
\* lets a name in only once
RECURSIVE ControlAssumptionsFrom(_, _, _, _)
ControlAssumptionsFrom(g, text, i, found) ==
    IF i > Len(g.nodes) THEN found
    ELSE IF /\ g.nodes[i].type = "control"
            /\ g.nodes[i].control_state # NoState
            /\ \A k \in DOMAIN found :
                found[k].name # CtrlAssumptionName(text[i].name, g.nodes[i].control_state)
        THEN ControlAssumptionsFrom(g, text, i + 1,
                Append(found,
                    [id |-> CtrlAssumptionId(text[i].id),
                     name |-> CtrlAssumptionName(text[i].name, g.nodes[i].control_state)]))
    ELSE ControlAssumptionsFrom(g, text, i + 1, found)

\* SCMBuilder._extract_assumptions, for edges without constraint assumptions
\* and identities whose mfa_enabled is None
_extract_assumptions(g, text) == ControlAssumptionsFrom(g, text, 1, <<>>)

(***************************************************************************)
(* solver_engine.py: CausalSolver over the SCM held in graph / equations.  *)
(* An intervention map is a function from a set of node ids to BOOLEAN.    *)
(***************************************************************************)
\* _build_variables plus every get_var a query on this goal performs
_z3_vars(goal) ==
    NodeIds(graph) \cup goal.target_assets \cup goal.required_conditions
        \cup {eq.target_variable : eq \in equations}
        \cup UNION {eq.parent_variables \cup eq.negated_parents : eq \in equations}

\* a parent inside an equation: its intervened constant, or its variable
PartValue(A, interventions, id) ==
    IF id \in DOMAIN interventions THEN interventions[id] ELSE A[id]

\* EquationFormula with the enablers conjoined, as the docstring of _encode_scm
\* words it ("parent1 AND parent2 AND ...")
EquationFormula_conjunctive(A, interventions, eq) ==
    LET enabler == \A p \in eq.parent_variables : PartValue(A, interventions, p)
        blocker == \E c \in eq.negated_parents : PartValue(A, interventions, c)
    IN  IF eq.parent_variables # {} /\ eq.negated_parents # {}
            THEN enabler /\ ~blocker
        ELSE IF eq.parent_variables # {} THEN enabler
        ELSE ~blocker

\* EquationFormula without the Not around the blocking controls
EquationFormula_unnegated(A, interventions, eq) ==
    LET enabler == \E p \in eq.parent_variables : PartValue(A, interventions, p)
        blocker == \E c \in eq.negated_parents : PartValue(A, interventions, c)
    IN  IF eq.parent_variables # {} /\ eq.negated_parents # {}
            THEN enabler /\ blocker
        ELSE IF eq.parent_variables # {} THEN enabler
        ELSE blocker

\* the right-hand side of one structural equation, for a target that has one
EquationFormula(A, interventions, eq) ==
    LET enabler == \E p \in eq.parent_variables : PartValue(A, interventions, p)
        blocker == \E c \in eq.negated_parents : PartValue(A, interventions, c)
    IN  IF eq.parent_variables # {} /\ eq.negated_parents # {}
            THEN enabler /\ ~blocker
        ELSE IF eq.parent_variables # {} THEN enabler
        ELSE ~blocker

\* an encoding that keeps the equation of an intervened target
_encode_scm_unsevered(A, interventions) ==
    \A eq \in equations :
        /\ eq.target_variable \in DOMAIN interventions
            => A[eq.target_variable] = interventions[eq.target_variable]
        /\ (eq.parent_variables # {} \/ eq.negated_parents # {})
            => A[eq.target_variable] = EquationFormula(A, interventions, eq)

\* CausalSolver._encode_scm: the constraints hold under the assignment A
_encode_scm(A, interventions) ==
    \A eq \in equations :
        IF eq.target_variable \in DOMAIN interventions
            THEN A[eq.target_variable] = interventions[eq.target_variable]
        ELSE IF eq.parent_variables = {} /\ eq.negated_parents = {} THEN TRUE
        ELSE A[eq.target_variable] = EquationFormula(A, interventions, eq)

_encode_exogenous_constraints(A, interventions) ==
    \A i \in DOMAIN graph.nodes :
        LET node == graph.nodes[i] IN
        get_parents(graph, node.id) = {} =>
            IF node.id \in DOMAIN interventions
                THEN A[node.id] = interventions[node.id]
            ELSE IF node.type = "control"
                THEN A[node.id] = (node.control_state = "active")
            ELSE IF node.type = "identity" THEN A[node.id] = TRUE
            ELSE TRUE

_encode_goal(A, goal) ==
    LET conditions == goal.target_assets \cup goal.required_conditions
    IN  IF conditions = {} THEN FALSE ELSE \A c \in conditions : A[c]

\* the assertions check_satisfiability adds to the Solver
Asserted(A, goal, interventions) ==
    /\ _encode_scm(A, interventions)
    /\ _encode_exogenous_constraints(A, interventions)
    /\ _encode_goal(A, goal)

\* the assertions that fix one variable on their own: a goal condition, an
\* intervened equation target, a constrained exogenous node
UnitAssertions(goal, interventions) ==
    {<<c, TRUE>> : c \in goal.target_assets \cup goal.required_conditions}
    \cup {<<eq.target_variable, interventions[eq.target_variable]>> :
            eq \in {q \in equations : q.target_variable \in DOMAIN interventions}}
    \cup {<<n, interventions[n]>> :
            n \in {m \in NodeIds(graph) \cap DOMAIN interventions :
                        get_parents(graph, m) = {}}}
    \cup {<<n, get_node(graph, n).control_state = "active">> :
            n \in {m \in NodeIds(graph) \ DOMAIN interventions :
                        /\ get_parents(graph, m) = {}
                        /\ get_node(graph, m).type = "control"}}
    \cup {<<n, TRUE>> :
            n \in {m \in NodeIds(graph) \ DOMAIN interventions :
                        /\ get_parents(graph, m) = {}
                        /\ get_node(graph, m).type = "identity"}}

\* the assignments Solver.check() has to look at: those that agree with the
\* unit assertions (none, when two of them disagree)
AgreeingWith(z3_vars, units) ==
    LET fixed == {u[1] : u \in units}
    IN  IF \E u, v \in units : u[1] = v[1] /\ u[2] # v[2] THEN {}
        ELSE {[x \in z3_vars |-> IF x \in fixed THEN <<x, TRUE>> \in units ELSE F[x]] :
                F \in [z3_vars \ fixed -> BOOLEAN]}

\* the candidates of one query
Candidates(goal, interventions) ==
    AgreeingWith(_z3_vars(goal), UnitAssertions(goal, interventions))

\* the models Solver.check() may return (_extract_witness reads one of them)
Z3Models(goal, interventions) ==
    {A \in Candidates(goal, interventions) : Asserted(A, goal, interventions)}

\* SolverResult.status
check_satisfiability(goal, interventions) ==
    IF interventions \in z3_unknown THEN "timeout"
    ELSE IF \E A \in Candidates(goal, interventions) : Asserted(A, goal, interventions)
        THEN "sat"
    ELSE "unsat"

Identities == {graph.nodes[i].id : i \in {j \in DOMAIN graph.nodes :
                                            graph.nodes[j].type = "identity"}}

\* test interventions that pin `identity` and leave the other identities alone
test_interventions_leaving_others(interventions, identity) ==
    [x \in DOMAIN interventions \cup {identity} |->
        IF x = identity THEN TRUE ELSE interventions[x]]

\* test_interventions of compute_inevitability: only `identity` is compromised
test_interventions(interventions, identity) ==
    [x \in DOMAIN interventions \cup Identities |->
        IF x = identity THEN TRUE
        ELSE IF x \in Identities THEN FALSE
        ELSE interventions[x]]

\* Python round(num / den, 2) in hundredths, for num in units of 1/(100*den)
Round2(num, den) ==
    LET q == num \div den
        r == num % den
    IN  IF 2 * r > den THEN q + 1
        ELSE IF 2 * r < den THEN q
        ELSE IF q % 2 = 0 THEN q ELSE q + 1

Max(a, b) == IF a >= b THEN a ELSE b

\* an InevitabilityResult without the boost for an unguarded target
InevitabilityResult_without_boost(goal, base, den, achievable_count, active_controls_on_path) ==
    LET s1 == 100 * achievable_count
        raw == IF base = "sat" THEN Max(s1, 30 * den) ELSE s1
    IN  IF base = "unsat"
            THEN [score |-> 0, is_inevitable |-> FALSE, status |-> base]
        ELSE IF den = 0
            THEN [score |-> IF base = "sat" THEN 100 ELSE 0,
                  is_inevitable |-> (base = "sat"), status |-> base]
        ELSE [score |-> Round2(raw, den),
              is_inevitable |-> (raw >= goal.threshold * den),
              status |-> base]

\* InevitabilityResult.  score is in hundredths; raw / (100 * den) is the
\* unrounded score the flag is computed from; threshold is in hundredths.
InevitabilityResult(goal, base, den, achievable_count, active_controls_on_path) ==
    LET s1 == 100 * achievable_count
        s2 == IF base = "sat" THEN Max(s1, 30 * den) ELSE s1
        raw == IF active_controls_on_path = 0 /\ base = "sat"
                   THEN Max(s2, 80 * den) ELSE s2
    IN  IF base = "unsat"
            THEN [score |-> 0, is_inevitable |-> FALSE, status |-> base]
        ELSE IF den = 0
            THEN [score |-> IF base = "sat" THEN 100 ELSE 0,
                  is_inevitable |-> (base = "sat"), status |-> base]
        ELSE [score |-> Round2(raw, den),
              is_inevitable |-> (raw >= goal.threshold * den),
              status |-> base]

\* the base check, the entry-point analysis over the identities, and the
\* controls with an edge into a target asset
compute_inevitability(goal, interventions) ==
    InevitabilityResult(goal,
        check_satisfiability(goal, interventions),
        Cardinality(Identities),
        Cardinality({i \in Identities :
            check_satisfiability(goal, test_interventions(interventions, i)) = "sat"}),
        Cardinality({c \in get_controls(graph) :
            get_children(graph, c) \cap goal.target_assets # {}}))

(***************************************************************************)
(* mcs_extractor.py.  An MCSSet is kept as the set of its element control  *)
(* ids; score differences are exact (hundredths).                          *)
(***************************************************************************)
DefaultMaxCardinality == 5      \* max_mcs_cardinality: int = 5

\* {c.id: True for c in combo}
ForceTrue(S) == [c \in S |-> TRUE]

Pin(interventions, id, value) ==
    [x \in DOMAIN interventions \cup {id} |->
        IF x = id THEN value ELSE interventions[x]]

\* impact = result_without.score - result_with.score
Impact(g, ctrl) ==
    compute_inevitability(g, Pin(<<>>, ctrl, FALSE)).score
        - compute_inevitability(g, Pin(<<>>, ctrl, TRUE)).score

\* control_impacts.sort(key=impact, reverse=True): a stable sort, so controls
\* of equal impact stay in node-list order
RECURSIVE SortByImpact(_)
SortByImpact(control_impacts) ==
    IF control_impacts = {} THEN <<>>
    ELSE LET best == CHOOSE c \in control_impacts : \A d \in control_impacts :
                        \/ c.impact > d.impact
                        \/ c.impact = d.impact /\ c.position <= d.position
         IN  <<best.ctrl>> \o SortByImpact(control_impacts \ {best})

SeqToSet(q) == {q[i] : i \in DOMAIN q}

Min(a, b) == IF a <= b THEN a ELSE b

\* the candidate set grows along the impact order until the goal is UNSAT
GreedyPrefix(g, order, max_cardinality) ==
    LET blocking == {k \in 1..Min(Len(order), max_cardinality) :
            check_satisfiability(g, ForceTrue(SeqToSet(SubSeq(order, 1, k)))) = "unsat"}
    IN  IF blocking = {} THEN {}
        ELSE {SeqToSet(SubSeq(order, 1, CHOOSE k \in blocking : \A j \in blocking : k <= j))}

\* the controls are ranked by impact and added in that order
_greedy_mcs(g, controls, max_cardinality) ==
    GreedyPrefix(g,
        SortByImpact({[ctrl |-> c, impact |-> Impact(g, c), position |-> PosOf(graph, c)] :
                        c \in controls}),
        max_cardinality)

\* one combination passes when it is UNSAT and no single removal stays UNSAT
IsMinimalBlocking(g, combo) ==
    /\ check_satisfiability(g, ForceTrue(combo)) = "unsat"
    /\ \A ctrl \in combo :
        check_satisfiability(g, ForceTrue(combo \ {ctrl})) # "unsat"

\* a search that looks at the supersets of the sets it has emitted
ExactOfSize_without_pruning(g, controls, size, known_supersets) ==
    known_supersets \cup
        {combo \in SUBSET controls :
            /\ Cardinality(combo) = size
            /\ IsMinimalBlocking(g, combo)}

\* the sets emitted for sizes 1..size; supersets of an emitted set are skipped
ExactOfSize(g, controls, size, known_supersets) ==
    known_supersets \cup
        {combo \in SUBSET controls :
            /\ Cardinality(combo) = size
            /\ ~(\E known \in known_supersets : known \subseteq combo)
            /\ IsMinimalBlocking(g, combo)}

\* for size in range(1, ...): sizes are visited in increasing order
RECURSIVE ExactUpTo(_, _, _)
ExactUpTo(g, controls, size) ==
    IF size <= 0 THEN {}
    ELSE ExactOfSize(g, controls, size, ExactUpTo(g, controls, size - 1))

_exact_mcs(g, controls, max_cardinality) ==
    ExactUpTo(g, controls, Min(max_cardinality, Cardinality(controls)))

\* MCSResult.mcs_sets
extract_mcs(g, max_cardinality, algorithm) ==
    IF get_controls(graph) = {} THEN {}
    ELSE IF algorithm = "exact"
        THEN _exact_mcs(g, get_controls(graph), max_cardinality)
    ELSE _greedy_mcs(g, get_controls(graph), max_cardinality)

\* MCSExtractor.generate_mcs_proof: the evidence of the ProofArtifact
generate_mcs_proof(g, mcs) ==
    [blocking_verified |-> (check_satisfiability(g, ForceTrue(mcs)) = "unsat"),
     minimality_checks |-> [e \in mcs |-> check_satisfiability(g, ForceTrue(mcs \ {e}))],
     all_subsets_sat |->
        (\A e \in mcs : check_satisfiability(g, ForceTrue(mcs \ {e})) = "sat")]

(***************************************************************************)
(* theater_detector.py.  Scores are binary doubles: the two comparisons of *)
(* score_diff against 0.01 and 0.2 are decided as IEEE-754 arithmetic      *)
(* decides them for two-decimal scores.                                    *)
(***************************************************************************)
Abs(x) == IF x < 0 THEN -x ELSE x

\* the scores hi (hundredths) for which the double hi/100 - (hi-1)/100 is
\* below the double 0.01; any other difference of one hundredth is not
Float001Short == {3, 6, 8, 9, 11, 12, 15, 18, 21, 24, 29, 35, 41, 47, 57, 69, 82, 94}

\* the scores hi (hundredths) for which the double hi/100 - (hi-20)/100 is
\* below the double 0.2; any other difference of twenty hundredths is not
Float02Short ==
    {21, 24, 29, 30, 35, 36, 37, 41, 42, 43, 47, 48} \cup (57..60) \cup (69..76)
        \cup (82..88) \cup (94..100)

\* score_diff < 0.01
DiffBelow001(disabled, enabled) ==
    \/ disabled = enabled
    \/ Abs(disabled - enabled) = 1 /\ Max(disabled, enabled) \in Float001Short

\* score_diff >= 0.2
DiffAtLeast02(disabled, enabled) ==
    \/ Abs(disabled - enabled) > 20
    \/ Abs(disabled - enabled) = 20 /\ Max(disabled, enabled) \notin Float02Short

\* a classification that looks at MCS membership before the score difference
ControlClassification_mcs_first(ctrl, mcs_ids, result_enabled, result_disabled) ==
    [control_id |-> ctrl,
     classification |->
        IF ctrl \in mcs_ids THEN "critical"
        ELSE IF DiffBelow001(result_disabled.score, result_enabled.score) THEN "irrelevant"
        ELSE IF DiffAtLeast02(result_disabled.score, result_enabled.score) THEN "necessary"
        ELSE "partial",
     causal_contribution_score |-> Abs(result_disabled.score - result_enabled.score),
     annual_cost |-> IF node_text[ctrl].annual_cost = NoCost THEN 0
                     ELSE node_text[ctrl].annual_cost]

\* the ControlClassification of one control
ControlClassification(ctrl, mcs_ids, result_enabled, result_disabled) ==
    [control_id |-> ctrl,
     classification |->
        IF DiffBelow001(result_disabled.score, result_enabled.score) THEN "irrelevant"
        ELSE IF ctrl \in mcs_ids THEN "critical"
        ELSE IF DiffAtLeast02(result_disabled.score, result_enabled.score) THEN "necessary"
        ELSE "partial",
     causal_contribution_score |-> Abs(result_disabled.score - result_enabled.score),
     annual_cost |-> IF node_text[ctrl].annual_cost = NoCost THEN 0
                     ELSE node_text[ctrl].annual_cost]

\* one turn of the loop: the control forced on, then forced off
ClassifyControl(g, ctrl, mcs_ids) ==
    ControlClassification(ctrl, mcs_ids,
        compute_inevitability(g, Pin(<<>>, ctrl, TRUE)),
        compute_inevitability(g, Pin(<<>>, ctrl, FALSE)))

\* the controls in node-list order
ControlList(g) == SelectSeq(g.nodes, LAMBDA n : n.type = "control")

\* a loop that appends nothing for a control without measurable impact
ClassifyEach_dropping_irrelevant(g, mcs_ids) ==
    SelectSeq([i \in DOMAIN ControlList(graph) |->
                    ClassifyControl(g, ControlList(graph)[i].id, mcs_ids)],
              LAMBDA c : c.classification # "irrelevant")

\* for ctrl in controls: ... classifications.append(...)
ClassifyEach(g, mcs_ids) ==
    [i \in DOMAIN ControlList(graph) |->
        ClassifyControl(g, ControlList(graph)[i].id, mcs_ids)]

CountOf(classifications, kind) ==
    Cardinality({i \in DOMAIN classifications : classifications[i].classification = kind})

\* sum(c.annual_cost for c in classifications if c.classification == kind)
RECURSIVE CostOf(_, _)
CostOf(classifications, kind) ==
    IF classifications = <<>> THEN 0
    ELSE (IF Head(classifications).classification = kind
            THEN Head(classifications).annual_cost ELSE 0)
         + CostOf(Tail(classifications), kind)

\* the TheaterReport (waste_ratio left out)
TheaterReport(g, classifications) ==
    [goal_id |-> g.id,
     total_waste |-> CostOf(classifications, "irrelevant"),
     classifications |-> classifications,
     total_controls |-> Len(classifications),
     critical_count |-> CountOf(classifications, "critical"),
     necessary_count |-> CountOf(classifications, "necessary"),
     partial_count |-> CountOf(classifications, "partial"),
     irrelevant_count |-> CountOf(classifications, "irrelevant")]

\* TheaterDetector.classify_controls
classify_controls(g, mcs_control_ids) ==
    TheaterReport(g, ClassifyEach(g, mcs_control_ids))

(***************************************************************************)
(* counterfactual.py.  Scores are two-decimal doubles; the sign of their   *)
(* difference is the sign of the exact difference.                         *)
(***************************************************************************)
\* an update that forgets the baseline
Merge_dropping_baseline(baseline_interventions, interventions) == interventions

\* merged = dict(baseline_interventions or {}); merged.update(interventions)
Merge(baseline_interventions, interventions) ==
    [x \in DOMAIN baseline_interventions \cup DOMAIN interventions |->
        IF x \in DOMAIN interventions THEN interventions[x]
        ELSE baseline_interventions[x]]

\* the dict what_if returns (goal name and explanation left out); delta is in
\* hundredths
WhatIfResult(baseline, after, interventions) ==
    [before |-> baseline.score,
     after |-> after.score,
     delta |-> after.score - baseline.score,
     direction |-> IF after.score - baseline.score > 0 THEN "INCREASED"
                   ELSE IF after.score - baseline.score < 0 THEN "DECREASED"
                   ELSE "UNCHANGED",
     is_inevitable_before |-> baseline.is_inevitable,
     is_inevitable_after |-> after.is_inevitable,
     crossed_threshold |-> (baseline.is_inevitable # after.is_inevitable),
     interventions_applied |-> interventions]

\* CounterfactualEngine.what_if
what_if(g, interventions, baseline_interventions) ==
    WhatIfResult(compute_inevitability(g, baseline_interventions),
                 compute_inevitability(g, Merge(baseline_interventions, interventions)),
                 interventions)

\* Python `s in t` on strings
IsSubstring(s, t) ==
    \E k \in 0..(Len(t) - Len(s)) : SubSeq(t, k + 1, k + Len(s)) = s

\* the controls the inner loop of toggle_assumption can stop at
AssociatedControls(assumption) ==
    {i \in DOMAIN graph.nodes :
        /\ graph.nodes[i].type = "control"
        /\ \/ IsSubstring(node_text[i].id, assumption.id)
           \/ IsSubstring(node_text[i].name, assumption.name)}

\* the first of a set of list positions
First(positions) == CHOOSE i \in positions : \A j \in positions : i <= j

\* the interventions toggle_assumption hands to what_if: the first assumption
\* of that id or name, then the first control associated with it
ToggledInterventions(matching, new_value, current_interventions) ==
    IF matching = {} \/ AssociatedControls(assumptions[First(matching)]) = {}
        THEN current_interventions
    ELSE Pin(current_interventions,
             graph.nodes[First(AssociatedControls(assumptions[First(matching)]))].id,
             new_value)

\* CounterfactualEngine.toggle_assumption
toggle_assumption(g, assumption_id, new_value, current_interventions) ==
    what_if(g,
        ToggledInterventions(
            {k \in DOMAIN assumptions :
                assumptions[k].id = assumption_id \/ assumptions[k].name = assumption_id},
            new_value, current_interventions),
        current_interventions)

\* the scores hi (hundredths) for which the double hi/100 - (hi-1)/100 is the
\* double 0.01
Float001Equal == {1, 2}

\* the scores hi (hundredths) for which the double hi/100 - (hi-10)/100 is
\* above the double 0.1; any other difference of ten hundredths is not
Float01Long == {28, 34, 39, 40, 45, 46, 67, 68, 79, 80, 81, 92, 93} \cup (51..56)

\* the scores hi (hundredths) for which the double hi/100 - (hi-20)/100 is
\* above the double 0.2; any other difference of twenty hundredths is not
Float02Long == {55, 56, 67, 68} \cup (77..81) \cup (89..93)

\* abs(delta) > 0.01
DeltaAbove001(after, before) ==
    \/ Abs(after - before) > 1
    \/ Abs(after - before) = 1
        /\ Max(after, before) \notin Float001Short \cup Float001Equal

\* "high" if abs(delta) > 0.2 else "medium" if abs(delta) > 0.1 else "low"
ImpactOf(after, before) ==
    IF Abs(after - before) > 20
            \/ (Abs(after - before) = 20 /\ Max(after, before) \in Float02Long)
        THEN "high"
    ELSE IF Abs(after - before) > 10
            \/ (Abs(after - before) = 10 /\ Max(after, before) \in Float01Long)
        THEN "medium"
    ELSE "low"

\* for node in nodes: for value in [True, False]
Toggles(g) ==
    [k \in 1..(2 * Len(g.nodes)) |->
        [variable_id |-> g.nodes[(k + 1) \div 2].id, set_to |-> (k % 2 = 1)]]

\* one entry of results (delta in hundredths)
SensitivityEntry(toggle, baseline, after) ==
    [variable_id |-> toggle.variable_id, set_to |-> toggle.set_to,
     delta |-> after.score - baseline.score, new_score |-> after.score,
     impact |-> ImpactOf(after.score, baseline.score),
     kept |-> DeltaAbove001(after.score, baseline.score)]

\* results.sort(key=abs(delta), reverse=True): a stable sort
RECURSIVE SortByDelta(_)
SortByDelta(results) ==
    IF results = <<>> THEN <<>>
    ELSE LET best == CHOOSE i \in DOMAIN results : \A j \in DOMAIN results :
                        \/ Abs(results[i].delta) > Abs(results[j].delta)
                        \/ Abs(results[i].delta) = Abs(results[j].delta) /\ i <= j
         IN  <<results[best]>>
                \o SortByDelta(SubSeq(results, 1, best - 1)
                                    \o SubSeq(results, best + 1, Len(results)))

\* the entries of every toggle that moves the score by more than 0.01
SensitivityResults(g, baseline, toggles, baseline_interventions) ==
    SelectSeq([k \in DOMAIN toggles |->
                  SensitivityEntry(toggles[k], baseline,
                      compute_inevitability(g,
                          Pin(baseline_interventions, toggles[k].variable_id,
                              toggles[k].set_to)))],
              LAMBDA e : e.kept)

\* CounterfactualEngine.sensitivity_analysis
sensitivity_analysis(g, baseline_interventions) ==
    SortByDelta(SensitivityResults(g, compute_inevitability(g, baseline_interventions),
                                   Toggles(graph), baseline_interventions))

(***************************************************************************)
(* collapse.py.  A rank is kept times 100; score differences are exact.    *)
(***************************************************************************)
\* control_disabled = None (node ids start at 1)
NoControl == 0

_classify_status(score, threshold) ==
    IF score >= threshold THEN "inevitable"
    ELSE IF 10 * score >= 6 * threshold THEN "at_risk"
    ELSE "defended"

\* the scores of every goal with the control forced on and forced off, given
\* the controls that are already off
score_pairs(ctrl, disabled) ==
    {[goal_index |-> i,
      score_with |-> compute_inevitability(goals[i], Pin(disabled, ctrl, TRUE)).score,
      score_without |-> compute_inevitability(goals[i], Pin(disabled, ctrl, FALSE)).score,
      threshold |-> goals[i].threshold] : i \in DOMAIN goals}

\* total_increase += max(0, delta)
RECURSIVE total_increase(_)
total_increase(pairs) ==
    IF pairs = {} THEN 0
    ELSE LET p == CHOOSE q \in pairs : TRUE
         IN  Max(0, p.score_without - p.score_with) + total_increase(pairs \ {p})

\* the CollapseMetrics of one candidate:
\* rank = goals_collapsed * 100 + total_increase * 10
CollapseMetrics(ctrl, pairs) ==
    LET goals_collapsed == Cardinality({p \in pairs :
            p.score_with < p.threshold /\ p.score_without >= p.threshold})
    IN  [control_id |-> ctrl,
         collapse_radius |-> goals_collapsed,
         total_inevitability_increase |-> total_increase(pairs),
         criticality_rank |-> goals_collapsed * 10000 + total_increase(pairs) * 10]

\* the metric of one candidate, from the scores of every goal
collapse_metric(ctrl, disabled) == CollapseMetrics(ctrl, score_pairs(ctrl, disabled))

\* compute_collapse_radius: the scores with {control_id: True} and with
\* {control_id: False}
compute_collapse_radius(control_id) == collapse_metric(control_id, <<>>)

RECURSIVE SumRadius(_)
SumRadius(metrics) ==
    IF metrics = {} THEN 0
    ELSE LET m == CHOOSE x \in metrics : TRUE
         IN  m.collapse_radius + SumRadius(metrics \ {m})

\* the grade of afi = sum / (total_controls * total_goals)
FragilityGrade(sum, den) ==
    IF 100 * sum <= 10 * den THEN "A"
    ELSE IF 100 * sum <= 25 * den THEN "B"
    ELSE IF 100 * sum <= 45 * den THEN "C"
    ELSE IF 100 * sum <= 70 * den THEN "D"
    ELSE "F"

\* the FragilityProfile (afi and structural_brittleness as fractions,
\* anti_patterns left out)
FragilityProfile(metrics, total_controls, total_goals) ==
    [afi |-> <<SumRadius(metrics), total_controls * total_goals>>,
     grade |-> FragilityGrade(SumRadius(metrics), total_controls * total_goals),
     spof_count |-> Cardinality({m \in metrics : m.collapse_radius = total_goals}),
     high_collapse_controls |->
        Cardinality({m \in metrics : 2 * m.collapse_radius > total_goals}),
     structural_brittleness |->
        <<Cardinality({m \in metrics : m.collapse_radius = total_goals}), total_controls>>]

\* CollapseEngine.compute_fragility
compute_fragility(gs) ==
    IF get_controls(graph) = {} \/ gs = <<>>
        THEN [afi |-> <<0, 1>>, grade |-> "C", spof_count |-> 0,
              high_collapse_controls |-> 0, structural_brittleness |-> <<0, 1>>]
    ELSE FragilityProfile({compute_collapse_radius(c) : c \in get_controls(graph)},
                          Cardinality(get_controls(graph)), Len(gs))

\* the loop looks again at the controls it has switched off
Remaining_all(all_controls, disabled_ids) == all_controls

\* if ctrl.id in already_disabled: continue
Remaining(all_controls, disabled_ids) == all_controls \ disabled_ids

\* a comparison rank >= best_rank, which keeps the last control of the highest
\* rank
LastOfHighestRank(metrics) ==
    IF metrics = {} THEN [control_id |-> NoControl]
    ELSE CHOOSE m \in metrics : \A d \in metrics :
            \/ m.criticality_rank > d.criticality_rank
            \/ m.criticality_rank = d.criticality_rank
                /\ PosOf(graph, m.control_id) >= PosOf(graph, d.control_id)

\* rank > best_rank keeps the first control of the highest rank.  Ranks are
\* compared as exact numbers: the doubles of the ranks that the scores of a
\* graph of at most MaxIdentities identities give are ordered as the exact
\* ranks are, and equal where these are equal
FirstOfHighestRank(metrics) ==
    IF metrics = {} THEN [control_id |-> NoControl]
    ELSE CHOOSE m \in metrics : \A d \in metrics :
            \/ m.criticality_rank > d.criticality_rank
            \/ m.criticality_rank = d.criticality_rank
                /\ PosOf(graph, m.control_id) <= PosOf(graph, d.control_id)

\* the inner loop over the controls that are still on
best_metric(disabled, disabled_ids) ==
    FirstOfHighestRank({collapse_metric(c, disabled) :
                            c \in Remaining(get_controls(graph), disabled_ids)})

\* the loop goes on while a step is left and the best control either
\* collapses a goal or raises some score
LoopContinues(best) ==
    /\ step_counter < Cardinality(get_controls(graph))
    /\ best.control_id # NoControl
    /\ \/ best.collapse_radius # 0
       \/ best.total_inevitability_increase > 0

\* one entry of goal_states; frame 0 marks nothing newly inevitable
GoalState(score, status, was_inevitable) ==
    [score |-> score, status |-> status,
     newly_inevitable |-> (status = "inevitable" /\ ~was_inevitable)]

\* status = self._classify_status(result.score, goal.threshold)
GoalStateOf(score, threshold, was_inevitable) ==
    GoalState(score, _classify_status(score, threshold), was_inevitable)

\* goal_states of a frame, given those of the frame before
goal_states(interventions, prev_goal_states, first) ==
    [i \in DOMAIN goals |->
        GoalStateOf(compute_inevitability(goals[i], interventions).score,
                    goals[i].threshold,
                    first \/ prev_goal_states[i].status = "inevitable")]

\* one entry of node_states
NodeState(max_score) ==
    [score |-> max_score,
     status |-> IF max_score >= 70 THEN "inevitable"
                ELSE IF max_score >= 40 THEN "at_risk" ELSE "defended",
     pulse |-> max_score > 80]

\* max_score starts at 0.0
MaxOf(scores) == IF scores = {} THEN 0 ELSE CHOOSE m \in scores : \A x \in scores : x <= m

\* a node carries the highest score of the goals that name it
_compute_node_states(interventions) ==
    [n \in NodeIds(graph) |->
        NodeState(MaxOf({compute_inevitability(goals[i], interventions).score :
            i \in {j \in DOMAIN goals :
                    n \in goals[j].target_assets \cup goals[j].required_conditions}}))]

(***************************************************************************)
(* probability_engine.py: rank_control_impact.  Only what decides how the  *)
(* call exits and what it leaves in the graph is kept; risks are not       *)
(* computed.                                                               *)
(***************************************************************************)
\* _enumerate_attack_paths finds a path of at least one hop: BFS over all
\* edges from an identity to a target asset
HasAttackPath(g) ==
    \E i \in Identities, t \in g.target_assets : t \in Descendants(graph, i)

\* compute_goal_risk raises by itself exactly when compute_path_risk reaches
\* _get_edge_probability on an existing edge: InfraEdge has no
\* exploit_probability (a witness path holds node names and matches no edge)
compute_goal_risk_raises(g) == HasAttackPath(g)

SetControlState(g, ctrl, state) ==
    [g EXCEPT !.nodes = [i \in DOMAIN g.nodes |->
        IF g.nodes[i].id = ctrl THEN [g.nodes[i] EXCEPT !.control_state = state]
        ELSE g.nodes[i]]]

\* the graph rank_control_impact leaves behind and the way it exits.  fault
\* names the call of compute_goal_risk during which an exception that is not
\* of its own making arrives (an interrupt, memory exhaustion): "none",
\* "baseline", or "loop".
rank_control_impact(fault) ==
    LET controls == ControlList(graph)
    IN  IF fault = "baseline" \/ \E i \in DOMAIN goals : compute_goal_risk_raises(goals[i])
            THEN [graph |-> graph, exit |-> "raised", at |-> "baseline compute_goal_risk"]
        ELSE IF controls = <<>>
            THEN [graph |-> graph, exit |-> "returned", at |-> "return"]
        ELSE LET ctrl == controls[1]
                 original_state == ctrl.control_state
                 disabled == SetControlState(graph, ctrl.id, "inactive")
             IN  IF fault = "loop"
                     THEN [graph |-> disabled, exit |-> "raised",
                           at |-> "compute_goal_risk"]
                 \* the state is put back; InfraNode has no effectiveness
                 ELSE [graph |-> SetControlState(disabled, ctrl.id, original_state),
                       exit |-> "raised", at |-> "ctrl.effectiveness"]

(***************************************************************************)
(* The analyses the model draws: a CausalGraph and the goal of the query.  *)
(* SmallGraphs is every typed DAG on up to NumNodes nodes whose node list  *)
(* is in topological order; FanGraphs adds larger graphs of the shape the  *)
(* case studies have (identities reaching one target asset directly or     *)
(* through a shared asset, controls guarding either).                      *)
(***************************************************************************)
DefaultThreshold == 70      \* GoalPredicate.threshold = 0.7

NodeKinds ==
    {[type |-> "identity", control_state |-> NoState],
     [type |-> "asset", control_state |-> NoState],
     [type |-> "control", control_state |-> "active"],
     [type |-> "control", control_state |-> "inactive"]}

MkNodes(kinds) ==
    [i \in DOMAIN kinds |->
        [id |-> i, type |-> kinds[i].type, control_state |-> kinds[i].control_state]]

EdgeCandidates(kinds) ==
    {[source |-> i, target |-> j, edge_type |-> k] :
        i \in DOMAIN kinds, j \in DOMAIN kinds, k \in EdgeType}

SmallEdgeSets(kinds) ==
    {E \in SUBSET {e \in EdgeCandidates(kinds) :
                      /\ e.source < e.target
                      /\ (e.edge_type = "control" => kinds[e.source].type = "control")} :
        \A e1, e2 \in E : (e1.source = e2.source /\ e1.target = e2.target) => e1 = e2}

SmallGraphs ==
    UNION {UNION {{[nodes |-> MkNodes(kinds), edges |-> E] : E \in SmallEdgeSets(kinds)}
                  : kinds \in [1..n -> NodeKinds]}
           : n \in 1..NumNodes}

Routes == {"none", "direct", "via"}
Guards == {[on |-> o, control_state |-> c] : o \in {"target", "via"},
                                              c \in {"active", "inactive"}}

\* identities 1..nI, the shared asset (if any route goes through it), the
\* target asset, then the controls in the order given
FanGraph(routes, guards) ==
    LET nI == Len(routes)
        hasVia == \E i \in 1..nI : routes[i] = "via"
        viaId == nI + 1
        tId == IF hasVia THEN nI + 2 ELSE nI + 1
        kinds == [p \in 1..(tId + Len(guards)) |->
                    IF p <= nI THEN [type |-> "identity", control_state |-> NoState]
                    ELSE IF p <= tId THEN [type |-> "asset", control_state |-> NoState]
                    ELSE [type |-> "control",
                          control_state |-> guards[p - tId].control_state]]
    IN  [nodes |-> MkNodes(kinds),
         edges |->
            {[source |-> i, target |-> tId, edge_type |-> "access"] :
                i \in {j \in 1..nI : routes[j] = "direct"}}
            \cup {[source |-> i, target |-> viaId, edge_type |-> "access"] :
                i \in {j \in 1..nI : routes[j] = "via"}}
            \cup (IF hasVia
                    THEN {[source |-> viaId, target |-> tId, edge_type |-> "access"]}
                    ELSE {})
            \cup {[source |-> tId + k,
                   target |-> IF guards[k].on = "via" THEN viaId ELSE tId,
                   edge_type |-> "control"] : k \in DOMAIN guards}]

SeqsUpTo(S, lo, hi) == UNION {[1..n -> S] : n \in lo..hi}

RouteRank(r) == IF r = "none" THEN 0 ELSE IF r = "direct" THEN 1 ELSE 2

\* identities are listed by route (their order decides nothing: only their
\* number is read); a control guards the shared asset only if there is one
FanInputs ==
    {rg \in SeqsUpTo(Routes, 1, MaxIdentities) \X SeqsUpTo(Guards, 0, MaxControls) :
        /\ \A i, j \in DOMAIN rg[1] : i < j => RouteRank(rg[1][i]) <= RouteRank(rg[1][j])
        /\ (\E k \in DOMAIN rg[2] : rg[2][k].on = "via")
            => (\E i \in DOMAIN rg[1] : rg[1][i] = "via")}

\* the last asset of the node list: the target of a fan graph
LastAsset(g) ==
    CHOOSE i \in DOMAIN g.nodes :
        /\ g.nodes[i].type = "asset"
        /\ \A j \in DOMAIN g.nodes : g.nodes[j].type = "asset" => j <= i

MkGoal(T, R, th) ==
    [id |-> "goal", target_assets |-> T, required_conditions |-> R, threshold |-> th]

AtMostOne(S) == {{}} \cup {{x} : x \in S}

\* a small graph with any goal of at most one target and one condition
SmallAnalyses(thresholds) ==
    UNION {{[graph |-> g, goal |-> MkGoal(T, R, th)] :
                T \in AtMostOne(NodeIds(g)), R \in AtMostOne(NodeIds(g)),
                th \in thresholds}
           : g \in SmallGraphs}

\* a small graph with the goal of compromising one of its nodes
SingleTargetAnalyses ==
    UNION {{[graph |-> g, goal |-> MkGoal({t}, {}, DefaultThreshold)] : t \in NodeIds(g)}
           : g \in SmallGraphs}

\* a fan graph with the goal of compromising its target asset
FanAnalyses(thresholds) ==
    {[graph |-> FanGraph(rg[1], rg[2]),
      goal |-> MkGoal({LastAsset(FanGraph(rg[1], rg[2]))}, {}, th)] :
        rg \in FanInputs, th \in thresholds}

(***************************************************************************)
(* State machine.  An analysis is constructed (Init), SCMBuilder.build     *)
(* derives the equations, and then one query runs on the solver.           *)
(***************************************************************************)
NoResult == [op |-> "none"]
NoWitness == <<>>

Interventions(g) ==
    UNION {[D -> BOOLEAN] : D \in {S \in SUBSET NodeIds(g) : Cardinality(S) <= MaxPins}}

goal == goals[1]

NoRequest == [nodes |-> <<>>, edges |-> {}, goals |-> <<>>]
NoOther == [pc |-> "absent"]

\* nothing built, nothing run
InitIdle ==
    /\ equations = "unbuilt"
    /\ solver = "none"
    /\ assumptions = <<>>
    /\ solver_called = FALSE
    /\ frames = <<>>
    /\ disabled_controls = <<>>
    /\ already_disabled = {}
    /\ step_counter = 0
    /\ sessions = {}
    /\ other = NoOther
    /\ caller_args = <<>>
    /\ last = NoResult

InitAnalysis(analyses) ==
    /\ \E a \in analyses :
        /\ graph = a.graph
        /\ node_text = DefaultText(a.graph.nodes)
        /\ goals = <<a.goal>>
    /\ z3_unknown = {}
    /\ request = NoRequest
    /\ pc = "new"
    /\ InitIdle

\* the cycles nx.simple_cycles reports, as sets of nodes visited in node order:
\* a set of nodes is an elementary cycle when some ordering of it is one
RECURSIVE IsCyclePath(_, _, _, _)
IsCyclePath(g, first, cur, rest) ==
    IF rest = {}
        THEN \E e \in g.edges : e.source = cur /\ e.target = first
    ELSE \E n \in rest :
            /\ \E e \in g.edges : e.source = cur /\ e.target = n
            /\ IsCyclePath(g, first, n, rest \ {n})

simple_cycles(g) ==
    {C \in SUBSET EndPoints(g) :
        /\ C # {}
        /\ LET first == CHOOSE n \in C : \A m \in C : n <= m
           IN  IsCyclePath(g, first, first, C \ {first})}

\* a validation that lets every graph through
_validate_graph_unchecked(g) == TRUE

\* SCMBuilder.build: _validate_graph raises on a cycle, carrying cycles[:3]
_validate_graph(g) == is_directed_acyclic_graph(g)

Build ==
    /\ pc = "new"
    /\ IF _validate_graph(graph)
        THEN /\ equations' = _generate_equations(graph)
             /\ assumptions' = _extract_assumptions(graph, node_text)
             /\ pc' = "built"
             /\ last' = [op |-> "build", error |-> "none"]
        ELSE /\ \E reported \in SUBSET simple_cycles(graph) :
                /\ Cardinality(reported) =
                       IF Cardinality(simple_cycles(graph)) < 3
                           THEN Cardinality(simple_cycles(graph)) ELSE 3
                /\ last' = [op |-> "build", error |-> "cycle", cycles |-> reported]
             /\ UNCHANGED <<equations, assumptions>>
             /\ pc' = "failed"
    /\ UNCHANGED <<graph, node_text, z3_unknown, goals, solver, solver_called,
                   collapseVars, apiVars>>

\* solver = CausalSolver(scm)
NewSolver ==
    /\ pc = "built"
    /\ solver' = "constructed"
    /\ pc' = "ready"
    /\ UNCHANGED <<scmVars, solver_called, collapseVars, apiVars, last>>

CheckSatisfiability ==
    /\ pc = "ready"
    /\ \E M \in Interventions(graph) :
        LET st == check_satisfiability(goal, M) IN
        \E w \in (IF st = "sat" THEN Z3Models(goal, M) ELSE {NoWitness}) :
            last' = [op |-> "check_satisfiability", interventions |-> M,
                     status |-> st, witness |-> w]
    /\ pc' = "done"
    /\ solver_called' = TRUE
    /\ UNCHANGED <<scmVars, solver, collapseVars, apiVars>>

ComputeInevitability ==
    /\ pc = "ready"
    /\ \E M \in Interventions(graph) :
        /\ last' = [op |-> "compute_inevitability", interventions |-> M,
                    result |-> compute_inevitability(goal, M)]
        /\ caller_args' = <<M>>
    /\ pc' = "done"
    /\ solver_called' = TRUE
    /\ UNCHANGED <<scmVars, solver, collapseVars, request, sessions, other>>

Thresholds == {0, 67, DefaultThreshold, 100}

InitSolver == InitAnalysis(SmallAnalyses({DefaultThreshold}))
NextSolver == Build \/ NewSolver \/ CheckSatisfiability
SpecSolver == InitSolver /\ [][NextSolver]_vars

InitInev == InitAnalysis(SmallAnalyses({DefaultThreshold}) \cup FanAnalyses(Thresholds))
NextInev == Build \/ NewSolver \/ ComputeInevitability
SpecInev == InitInev /\ [][NextInev]_vars

ExtractMCS ==
    /\ pc = "ready"
    /\ \E algorithm \in {"greedy", "exact"}, max_cardinality \in {1, DefaultMaxCardinality} :
        last' = [op |-> "extract_mcs", algorithm |-> algorithm,
                 max_cardinality |-> max_cardinality,
                 mcs_sets |-> extract_mcs(goal, max_cardinality, algorithm)]
    /\ pc' = "done"
    /\ solver_called' = (solver_called \/ get_controls(graph) # {})
    /\ UNCHANGED <<scmVars, solver, collapseVars, apiVars>>

\* the intervention maps that pin at most one node
SinglePins(g) == {<<>>} \cup UNION {[{n} -> BOOLEAN] : n \in NodeIds(g)}

\* a what-if query that pins at most one node on top of a baseline that pins
\* at most one node
WhatIf ==
    /\ pc = "ready"
    /\ \E M \in SinglePins(graph), base \in SinglePins(graph) :
        /\ last' = [op |-> "what_if", interventions |-> M, baseline_interventions |-> base,
                    result |-> what_if(goal, M, base)]
        /\ caller_args' = <<M, base>>
    /\ pc' = "done"
    /\ solver_called' = TRUE
    /\ UNCHANGED <<scmVars, solver, collapseVars, request, sessions, other>>

InitWhatIf == InitAnalysis(FanAnalyses({67, DefaultThreshold}))
NextWhatIf == Build \/ NewSolver \/ WhatIf
SpecWhatIf == InitWhatIf /\ [][NextWhatIf]_vars

\* an assumption of the SCM is toggled by its id or by its name
ToggleAssumption ==
    /\ pc = "ready"
    /\ \E k \in DOMAIN assumptions, new_value \in BOOLEAN :
        \E assumption_id \in {assumptions[k].id, assumptions[k].name} :
            last' = [op |-> "toggle_assumption", assumption_id |-> assumption_id,
                     new_value |-> new_value,
                     result |-> toggle_assumption(goal, assumption_id, new_value, <<>>)]
    /\ pc' = "done"
    /\ solver_called' = TRUE
    /\ UNCHANGED <<scmVars, solver, collapseVars, apiVars>>

\* control ids and names some of which are contained in others
ControlIdTexts == {<<"c", "1">>, <<"c", "1", "2">>, <<"x">>}
ControlNameTexts == {<<"f", "w">>, <<"f", "w", "2">>}

\* the texts of a graph: any of the above for its controls (ids are unique)
ControlTexts(g) ==
    {[i \in DOMAIN g.nodes |->
            IF g.nodes[i].type = "control"
                THEN [id |-> ids[i], name |-> names[i], annual_cost |-> NoCost]
            ELSE DefaultText(g.nodes)[i]] :
        ids \in {f \in [ControlPositions(g) -> ControlIdTexts] :
                    \A i, j \in DOMAIN f : f[i] = f[j] => i = j},
        names \in [ControlPositions(g) -> ControlNameTexts]}

InitToggle ==
    /\ \E a \in FanAnalyses({DefaultThreshold}) :
        /\ graph = a.graph
        /\ node_text \in ControlTexts(a.graph)
        /\ goals = <<a.goal>>
    /\ z3_unknown = {}
    /\ request = NoRequest
    /\ pc = "new"
    /\ InitIdle
NextToggle == Build \/ NewSolver \/ ToggleAssumption
SpecToggle == InitToggle /\ [][NextToggle]_vars

\* an identity reaches the target over two assets; of five inactive controls
\* one guards the first asset, two guard the second and two guard nothing
FiveControls ==
    [graph |->
        [nodes |-> MkNodes([i \in 1..9 |->
                        IF i = 1 THEN [type |-> "identity", control_state |-> NoState]
                        ELSE IF i <= 4 THEN [type |-> "asset", control_state |-> NoState]
                        ELSE [type |-> "control", control_state |-> "inactive"]]),
         edges |-> {[source |-> 1, target |-> 2, edge_type |-> "access"],
                    [source |-> 1, target |-> 3, edge_type |-> "access"],
                    [source |-> 2, target |-> 4, edge_type |-> "access"],
                    [source |-> 3, target |-> 4, edge_type |-> "access"],
                    [source |-> 5, target |-> 2, edge_type |-> "control"],
                    [source |-> 6, target |-> 3, edge_type |-> "control"],
                    [source |-> 7, target |-> 3, edge_type |-> "control"]}],
     goal |-> MkGoal({4}, {}, DefaultThreshold)]

\* an identity reaches the target 5 over asset 2, which control 6 guards;
\* control 8 gives access to asset 3, which control 7 guards, and control 7
\* gives access to asset 4, which control 8 guards; 3 and 4 lead to the target
CrossedControls ==
    [graph |->
        [nodes |-> MkNodes([i \in 1..8 |->
                        IF i = 1 THEN [type |-> "identity", control_state |-> NoState]
                        ELSE IF i <= 5 THEN [type |-> "asset", control_state |-> NoState]
                        ELSE [type |-> "control", control_state |-> "inactive"]]),
         edges |-> {[source |-> 1, target |-> 2, edge_type |-> "access"],
                    [source |-> 2, target |-> 5, edge_type |-> "access"],
                    [source |-> 3, target |-> 5, edge_type |-> "access"],
                    [source |-> 4, target |-> 5, edge_type |-> "access"],
                    [source |-> 6, target |-> 2, edge_type |-> "control"],
                    [source |-> 8, target |-> 3, edge_type |-> "access"],
                    [source |-> 7, target |-> 3, edge_type |-> "control"],
                    [source |-> 7, target |-> 4, edge_type |-> "access"],
                    [source |-> 8, target |-> 4, edge_type |-> "control"]}],
     goal |-> MkGoal({5}, {}, DefaultThreshold)]

InitMCS == InitAnalysis(SmallAnalyses({DefaultThreshold}) \cup FanAnalyses({DefaultThreshold}))
NextMCS == Build \/ NewSolver \/ ExtractMCS
SpecMCS == InitMCS /\ [][NextMCS]_vars

\* extraction on the fan graphs and on the two graphs of many controls
InitManyControls ==
    InitAnalysis(FanAnalyses({DefaultThreshold}) \cup {FiveControls, CrossedControls})
SpecManyControls == InitManyControls /\ [][NextMCS]_vars


ClassifyControls ==
    /\ pc = "ready"
    /\ \E mcs_control_ids \in SUBSET get_controls(graph) :
        last' = [op |-> "classify_controls", mcs_control_ids |-> mcs_control_ids,
                 report |-> classify_controls(goal, mcs_control_ids)]
    /\ pc' = "done"
    /\ solver_called' = TRUE
    /\ UNCHANGED <<scmVars, solver, collapseVars, apiVars>>

InitTheater == InitAnalysis(SmallAnalyses({DefaultThreshold}) \cup FanAnalyses({DefaultThreshold}))
NextTheater == Build \/ NewSolver \/ ClassifyControls
SpecTheater == InitTheater /\ [][NextTheater]_vars

\* what a control may cost a year: nothing said, nothing, or 35000
AnnualCosts == {NoCost, 0, 35000}

\* the texts of a graph whose controls cost any of the above
CostTexts(g) ==
    {[i \in DOMAIN g.nodes |->
            [DefaultText(g.nodes)[i] EXCEPT
                !.annual_cost = IF i \in ControlPositions(g) THEN costs[i] ELSE NoCost]] :
        costs \in [ControlPositions(g) -> AnnualCosts]}

\* classification of the one or two controls of a small graph with a target
\* asset, whatever they cost
InitWaste ==
    /\ \E a \in {x \in SmallAnalyses({DefaultThreshold}) :
                    /\ x.goal.target_assets # {}
                    /\ Cardinality(ControlPositions(x.graph)) \in {1, 2}} :
        /\ graph = a.graph
        /\ node_text \in CostTexts(a.graph)
        /\ goals = <<a.goal>>
    /\ z3_unknown = {}
    /\ request = NoRequest
    /\ pc = "new"
    /\ InitIdle
SpecWaste == InitWaste /\ [][NextTheater]_vars


\* simulate_collapse up to frame 0
CollapseBegin ==
    /\ pc = "ready"
    /\ frames' = <<[step |-> 0, control_disabled |-> NoControl,
                    node_states |-> _compute_node_states(<<>>),
                    goal_states |-> goal_states(<<>>, <<>>, TRUE)]>>
    /\ disabled_controls' = <<>>
    /\ already_disabled' = {}
    /\ step_counter' = 0
    /\ solver_called' = (solver_called \/ goals # <<>>)
    /\ pc' = "collapsing"
    /\ UNCHANGED <<scmVars, solver, apiVars, last>>

\* one turn of the while loop
CollapseStep ==
    /\ pc = "collapsing"
    /\ \E best \in {best_metric(disabled_controls, already_disabled)} :
           /\ LoopContinues(best)
           /\ step_counter' = step_counter + 1
           /\ already_disabled' = already_disabled \cup {best.control_id}
           /\ disabled_controls' = Pin(disabled_controls, best.control_id, FALSE)
           /\ frames' = Append(frames,
                [step |-> step_counter + 1, control_disabled |-> best.control_id,
                 node_states |-> _compute_node_states(disabled_controls'),
                 goal_states |-> goal_states(disabled_controls',
                                             frames[Len(frames)].goal_states, FALSE)])
    /\ UNCHANGED <<scmVars, solver, solver_called, apiVars, pc, last>>

\* return frames
CollapseEnd ==
    /\ pc = "collapsing"
    /\ ~LoopContinues(best_metric(disabled_controls, already_disabled))
    /\ last' = [op |-> "simulate_collapse", frames |-> frames]
    /\ pc' = "done"
    /\ UNCHANGED <<scmVars, solver, solver_called, collapseVars, apiVars>>

InitCollapse == InitAnalysis(SingleTargetAnalyses \cup FanAnalyses(Thresholds))
NextCollapse == Build \/ NewSolver \/ CollapseBegin \/ CollapseStep \/ CollapseEnd
SpecCollapse == InitCollapse /\ [][NextCollapse]_vars

\* one pass through the body of the while loop, whichever way it leaves it:
\* CollapseStep when LoopContinues, CollapseEnd when it does not
CollapseTurn ==
    /\ pc = "collapsing"
    /\ \/ pc' = "collapsing" /\ step_counter' = step_counter + 1
       \/ pc' = "done" /\ step_counter' = step_counter

\* simulate_collapse is a loop of one thread: a call that is in the loop goes
\* on to its next turn
SpecCollapseFair == SpecCollapse /\ WF_<<pc, step_counter>>(CollapseTurn)


RankControlImpact ==
    /\ pc = "ready"
    /\ \E fault \in {"none", "baseline", "loop"} :
        LET r == rank_control_impact(fault)
        IN  /\ graph' = r.graph
            /\ last' = [op |-> "rank_control_impact", exit |-> r.exit, at |-> r.at]
    /\ pc' = "done"
    /\ UNCHANGED <<node_text, equations, assumptions, z3_unknown, goals, solver,
                   solver_called, collapseVars, apiVars>>

\* a graph with its controls in any state, or in none
AnyControlState(g) ==
    LET positions == {i \in DOMAIN g.nodes : g.nodes[i].type = "control"}
    IN  {[g EXCEPT !.nodes = [i \in DOMAIN g.nodes |->
                IF i \in positions
                    THEN [g.nodes[i] EXCEPT !.control_state = st[i]]
                ELSE g.nodes[i]]] :
            st \in [positions -> ControlState \cup {NoState}]}

RankAnalyses ==
    UNION {{[graph |-> h, goal |-> a.goal] : h \in AnyControlState(a.graph)}
           : a \in FanAnalyses({DefaultThreshold})}

InitRank == InitAnalysis(RankAnalyses)
NextRank == Build \/ NewSolver \/ RankControlImpact
SpecRank == InitRank /\ [][NextRank]_vars


(***************************************************************************)
(* The analyzers called one after another, in any order, on one SCM and    *)
(* one solver.                                                             *)
(***************************************************************************)
\* a sensitivity analysis that toggles the variables in the caller's map
SensitivityAnalysis_in_place ==
    /\ pc = "ready"
    /\ \E base \in SinglePins(graph) :
        /\ last' = [op |-> "sensitivity_analysis", baseline_interventions |-> base,
                    results |-> sensitivity_analysis(goal, base)]
        /\ caller_args' = <<Pin(base, graph.nodes[Len(graph.nodes)].id, FALSE)>>
    /\ pc' = "done"
    /\ solver_called' = TRUE
    /\ UNCHANGED <<scmVars, solver, collapseVars, request, sessions, other>>

\* sensitivity_analysis toggles every node in a copy of the baseline
\* (interventions = dict(baseline_interventions or {}))
SensitivityAnalysis ==
    /\ pc = "ready"
    /\ \E base \in SinglePins(graph) :
        /\ last' = [op |-> "sensitivity_analysis", baseline_interventions |-> base,
                    results |-> sensitivity_analysis(goal, base)]
        /\ caller_args' = <<base>>
    /\ pc' = "done"
    /\ solver_called' = TRUE
    /\ UNCHANGED <<scmVars, solver, collapseVars, request, sessions, other>>

\* a proof is generated for a set of controls put forward as an MCS
GenerateMcsProof ==
    /\ pc = "ready"
    /\ \E mcs \in (SUBSET get_controls(graph)) \ {{}} :
        last' = [op |-> "generate_mcs_proof", mcs |-> mcs,
                 evidence |-> generate_mcs_proof(goal, mcs)]
    /\ pc' = "done"
    /\ solver_called' = TRUE
    /\ UNCHANGED <<scmVars, solver, collapseVars, apiVars>>

ComputeFragility ==
    /\ pc = "ready"
    /\ last' = [op |-> "compute_fragility", profile |-> compute_fragility(goals)]
    /\ pc' = "done"
    /\ solver_called' = (solver_called \/ get_controls(graph) # {})
    /\ UNCHANGED <<scmVars, solver, collapseVars, apiVars>>

\* the caller takes the result and goes on to its next call, with maps it
\* builds anew, on the same SCM and solver
NextCall ==
    /\ pc = "done"
    /\ pc' = "ready"
    /\ last' = NoResult
    /\ caller_args' = <<>>
    /\ UNCHANGED <<scmVars, solver, solver_called, collapseVars, request, sessions, other>>

\* the chain attacker -> web -> db with the active control fw on web, and the
\* goal of reaching db
TrivialChain ==
    [graph |->
        [nodes |-> MkNodes(<<[type |-> "identity", control_state |-> NoState],
                             [type |-> "asset", control_state |-> NoState],
                             [type |-> "asset", control_state |-> NoState],
                             [type |-> "control", control_state |-> "active"]>>),
         edges |-> {[source |-> 1, target |-> 2, edge_type |-> "access"],
                    [source |-> 2, target |-> 3, edge_type |-> "lateral"],
                    [source |-> 4, target |-> 2, edge_type |-> "control"]}],
     goal |-> MkGoal({3}, {}, DefaultThreshold)]

\* a fan graph of at most four nodes, or the chain
InitFrame ==
    InitAnalysis({a \in FanAnalyses({DefaultThreshold}) : Len(a.graph.nodes) <= 4}
                    \cup {TrivialChain})
NextFrame ==
    Build \/ NewSolver \/ ComputeInevitability \/ ExtractMCS \/ GenerateMcsProof
        \/ ClassifyControls \/ WhatIf \/ SensitivityAnalysis \/ ComputeFragility
        \/ CollapseBegin \/ CollapseStep \/ CollapseEnd \/ NextCall
SpecFrame == InitFrame /\ [][NextFrame]_vars

(***************************************************************************)
(* api.py: a custom analysis request on its way through                    *)
(* run_custom_analysis and _run_analysis_pipeline.                         *)
(***************************************************************************)
\* _validate_custom_graph: the HTTP 400 detail, or "ok"
_validate_custom_graph(nodes, edges, gs) ==
    LET node_ids == {nodes[i].id : i \in DOMAIN nodes}
    IN  IF nodes = <<>> THEN "At least one node is required."
        ELSE IF gs = <<>> THEN "At least one goal is required."
        ELSE IF \E e \in edges : e.source \notin node_ids
            THEN "source does not match any node ID."
        ELSE IF \E e \in edges : e.target \notin node_ids
            THEN "target does not match any node ID."
        ELSE "ok"

\* run_custom_analysis up to the call of _run_analysis_pipeline
RunCustomAnalysis ==
    /\ pc = "request"
    /\ LET detail == _validate_custom_graph(request.nodes, request.edges, request.goals)
       IN  IF detail # "ok"
               THEN /\ last' = [op |-> "run_custom_analysis", status_code |-> 400,
                                detail |-> detail]
                    /\ pc' = "done"
                    /\ UNCHANGED <<graph, goals>>
           ELSE /\ graph' = [nodes |-> request.nodes, edges |-> request.edges]
                /\ goals' = request.goals
                /\ pc' = "new"
                /\ last' = last
    /\ UNCHANGED <<node_text, equations, assumptions, z3_unknown, solver, solver_called,
                   collapseVars, apiVars>>

\* an analysis id that is always the same
new_analysis_id_fixed(cache) == 1

\* AnalysisResult.analysis_id = str(uuid.uuid4()): an id no cached session has
new_analysis_id(cache) == Cardinality(cache) + 1

\* a pipeline that caches no session
CacheSession_nowhere(cache, analysis_id, g, eqs, gs) == cache

\* case_study: BreachCaseStudy | None = None, and run_custom_analysis passes none
NoCaseStudy == "None"

\* _active_sessions[result.analysis_id] = {"scm": scm, "goals": goals, "graph": graph,
\* "case_study": case_study, ...}
CacheSession(cache, analysis_id, g, eqs, gs) ==
    {s \in cache : s.analysis_id # analysis_id}
        \cup {[analysis_id |-> analysis_id, graph |-> g, equations |-> eqs, goals |-> gs,
                case_study |-> NoCaseStudy]}

\* the element control ids of all MCS sets of one MCSResult
mcs_ids(mcs_sets) == UNION mcs_sets

\* _run_analysis_pipeline after the solver is created: the per-goal results,
\* then the session is cached under a fresh analysis_id
RunPipeline ==
    /\ pc = "ready"
    /\ request # NoRequest
    /\ \E mcs \in {[i \in DOMAIN goals |->
                    extract_mcs(goals[i], request.max_mcs_cardinality, request.algorithm)]} :
           last' = [op |-> "run_custom_analysis", status_code |-> 200,
                    analysis_id |-> new_analysis_id(sessions),
                    inevitability_results |->
                        [i \in DOMAIN goals |-> compute_inevitability(goals[i], <<>>)],
                    mcs_results |-> mcs,
                    theater_reports |->
                        [i \in DOMAIN goals |->
                            classify_controls(goals[i], mcs_ids(mcs[i]))]]
    /\ sessions' = CacheSession(sessions, new_analysis_id(sessions), graph, equations, goals)
    /\ solver_called' = (solver_called \/ goals # <<>>)
    /\ pc' = "done"
    /\ UNCHANGED <<scmVars, solver, collapseVars, request, other, caller_args>>

\* the calls of the loop over the goals, in the order of the loop body (the
\* proofs generated per MCS set are left out), and the calls after the loop
GoalStages == <<"inevitability", "mcs", "theater", "explanation">>
GlobalStages ==
    <<"economic", "fragility", "collapse_simulation", "collapse_ranking", "optimizer",
      "certifier", "forecaster", "collision", "adversarial">>

\* _run_analysis_pipeline, call by call: last.stages is the log of the calls
\* made so far, each with the index of its goal (0 after the loop)
PipelineBegin ==
    /\ pc = "ready"
    /\ last' = [op |-> "pipeline", stages |-> <<>>]
    /\ pc' = "pipeline"
    /\ UNCHANGED <<scmVars, solver, solver_called, collapseVars, apiVars>>

\* for goal in goals: the next call of the loop body
PipelineGoalStage ==
    /\ pc = "pipeline"
    /\ Len(last.stages) < Len(GoalStages) * Len(goals)
    /\ last' = [last EXCEPT !.stages = Append(@,
            [stage |-> GoalStages[(Len(last.stages) % Len(GoalStages)) + 1],
             goal_index |-> (Len(last.stages) \div Len(GoalStages)) + 1])]
    /\ solver_called' = TRUE
    /\ UNCHANGED <<scmVars, solver, collapseVars, apiVars, pc>>

\* the next call after the loop
PipelineGlobalStage ==
    /\ pc = "pipeline"
    /\ Len(last.stages) >= Len(GoalStages) * Len(goals)
    /\ Len(last.stages) < Len(GoalStages) * Len(goals) + Len(GlobalStages)
    /\ last' = [last EXCEPT !.stages = Append(@,
            [stage |-> GlobalStages[Len(last.stages) - Len(GoalStages) * Len(goals) + 1],
             goal_index |-> 0])]
    /\ UNCHANGED <<scmVars, solver, solver_called, collapseVars, apiVars, pc>>

\* the result is assembled and the session cached
PipelineEnd ==
    /\ pc = "pipeline"
    /\ Len(last.stages) = Len(GoalStages) * Len(goals) + Len(GlobalStages)
    /\ sessions' = CacheSession(sessions, new_analysis_id(sessions), graph, equations, goals)
    /\ pc' = "done"
    /\ UNCHANGED <<scmVars, solver, solver_called, collapseVars, request, other, caller_args, last>>

\* a fan graph analysed for one goal or for two goals that differ in threshold
InitPipeline ==
    /\ \E a \in FanAnalyses({DefaultThreshold}) :
        /\ graph = a.graph
        /\ node_text = DefaultText(a.graph.nodes)
        /\ goals \in {<<a.goal>>, <<a.goal, [a.goal EXCEPT !.id = "goal2", !.threshold = 100]>>}
    /\ z3_unknown = {}
    /\ request = NoRequest
    /\ pc = "new"
    /\ InitIdle
NextPipeline ==
    Build \/ NewSolver \/ PipelineBegin \/ PipelineGoalStage \/ PipelineGlobalStage
        \/ PipelineEnd
SpecPipeline == InitPipeline /\ [][NextPipeline]_vars

\* requests over at most max_nodes nodes: any node kinds, at most
\* MaxApiEdges edges between ids that may or may not name a node, and at most
\* one goal whose target may or may not name a node
RECURSIVE SubsetsUpTo(_, _)
SubsetsUpTo(S, k) ==
    IF k = 0 THEN {{}}
    ELSE LET smaller == SubsetsUpTo(S, k - 1)
         IN  smaller \cup {T \cup {x} : T \in smaller, x \in S}

ApiEdgeSets(n) ==
    SubsetsUpTo({[source |-> i, target |-> j, edge_type |-> k] :
                    i \in 1..(n + 1), j \in 1..(n + 1), k \in EdgeType}, MaxApiEdges)

MkRequest(nodes, edges, gs) ==
    [nodes |-> nodes, edges |-> edges, goals |-> gs,
     algorithm |-> "greedy", max_mcs_cardinality |-> DefaultMaxCardinality]

SparseRequests(max_nodes) ==
    UNION {UNION {{MkRequest(MkNodes(kinds), E, gs) :
                        E \in ApiEdgeSets(n),
                        gs \in {<<>>} \cup {<<MkGoal(T, {}, DefaultThreshold)>> :
                                                T \in AtMostOne(1..(n + 1))}}
                  : kinds \in [1..n -> NodeKinds]}
           : n \in 0..max_nodes}

\* requests over NumNodes assets with any access edges between them, loops
\* and back edges included
DenseRequests ==
    LET kinds == [i \in 1..NumNodes |-> [type |-> "asset", control_state |-> NoState]]
    IN  {MkRequest(MkNodes(kinds), E, <<MkGoal({NumNodes}, {}, DefaultThreshold)>>) :
            E \in SUBSET {[source |-> i, target |-> j, edge_type |-> "access"] :
                            i \in 1..NumNodes, j \in 1..NumNodes}}

InitApi ==
    /\ request \in SparseRequests(MaxApiNodes) \cup DenseRequests
    /\ node_text = DefaultText(request.nodes)
    /\ graph = [nodes |-> <<>>, edges |-> {}]
    /\ goals = <<>>
    /\ z3_unknown = {}
    /\ pc = "request"
    /\ InitIdle
NextApi == RunCustomAnalysis \/ Build \/ NewSolver \/ RunPipeline
SpecApi == InitApi /\ [][NextApi]_vars

(***************************************************************************)
(* api.py: two analyses under way at once.  The second has a graph object, *)
(* an SCM and a solver of its own, and its calls interleave with those of  *)
(* the request above.                                                      *)
(***************************************************************************)
\* what the second analysis is about: the graph and goals of the request (in
\* objects of its own), another graph, or a graph with a cycle
OtherInputs ==
    {[graph |-> [nodes |-> request.nodes, edges |-> request.edges], goals |-> request.goals],
     [graph |-> FanGraph(<<"direct">>, <<[on |-> "target", control_state |-> "active"]>>),
      goals |-> <<MkGoal({2}, {}, DefaultThreshold)>>],
     [graph |-> [nodes |-> MkNodes([i \in 1..2 |-> [type |-> "asset", control_state |-> NoState]]),
                 edges |-> {[source |-> 1, target |-> 2, edge_type |-> "access"],
                            [source |-> 2, target |-> 1, edge_type |-> "access"]}],
      goals |-> <<MkGoal({2}, {}, DefaultThreshold)>>]}

\* _run_analysis_pipeline is entered for the second analysis
OtherRequest ==
    /\ other.pc = "absent"
    /\ \E a \in OtherInputs :
        other' = [pc |-> "new", graph |-> a.graph, goals |-> a.goals,
                  equations |-> "unbuilt", z3_vars |-> {}, analysis_id |-> 0]
    /\ UNCHANGED <<scmVars, solver, solver_called, collapseVars, request, sessions,
                   caller_args, pc, last>>

\* scm = SCMBuilder(graph).build() of the second analysis
OtherBuild ==
    /\ other.pc = "new"
    /\ other' = IF _validate_graph(other.graph)
                    THEN [other EXCEPT !.pc = "built",
                                       !.equations = _generate_equations(other.graph)]
                 ELSE [other EXCEPT !.pc = "failed"]
    /\ UNCHANGED <<scmVars, solver, solver_called, collapseVars, request, sessions,
                   caller_args, pc, last>>

\* solver = CausalSolver(scm) of the second analysis: _build_variables fills
\* the variable table of that solver
OtherNewSolver ==
    /\ other.pc = "built"
    /\ other' = [other EXCEPT !.pc = "ready", !.z3_vars = NodeIds(other.graph)]
    /\ UNCHANGED <<scmVars, solver, solver_called, collapseVars, request, sessions,
                   caller_args, pc, last>>

\* the calls of the second pipeline (get_var adds the goal's ids to the table
\* of its solver), then its session is cached
OtherPipeline ==
    /\ other.pc = "ready"
    /\ other' = [other EXCEPT
                    !.pc = "done",
                    !.z3_vars = @ \cup UNION {other.goals[i].target_assets : i \in DOMAIN other.goals},
                    !.analysis_id = new_analysis_id(sessions)]
    /\ sessions' = CacheSession(sessions, new_analysis_id(sessions),
                                other.graph, other.equations, other.goals)
    /\ UNCHANGED <<scmVars, solver, solver_called, collapseVars, request, caller_args, pc, last>>

\* a request to analyse a fan graph
InitConcurrent ==
    /\ request \in {MkRequest(a.graph.nodes, a.graph.edges, <<a.goal>>) :
                        a \in FanAnalyses({DefaultThreshold})}
    /\ node_text = DefaultText(request.nodes)
    /\ graph = [nodes |-> <<>>, edges |-> {}]
    /\ goals = <<>>
    /\ z3_unknown = {}
    /\ pc = "request"
    /\ InitIdle
NextConcurrent ==
    RunCustomAnalysis \/ Build \/ NewSolver \/ RunPipeline
        \/ OtherRequest \/ OtherBuild \/ OtherNewSolver \/ OtherPipeline
SpecConcurrent == InitConcurrent /\ [][NextConcurrent]_vars


\* the solver gives up on nothing, on the query without interventions, or on
\* every query
AllMaps(g) == UNION {[D -> BOOLEAN] : D \in SUBSET NodeIds(g)}

InitTimeout ==
    /\ \E a \in SingleTargetAnalyses :
        /\ graph = a.graph
        /\ node_text = DefaultText(a.graph.nodes)
        /\ goals = <<a.goal>>
        /\ z3_unknown \in {{}, {<<>>}, AllMaps(a.graph)}
    /\ request = NoRequest
    /\ pc = "new"
    /\ InitIdle
SpecTimeout == InitTimeout /\ [][NextInev]_vars

(***************************************************************************)
(* Claims.                                                                 *)
(***************************************************************************)

\* C1: every MCSSet S returned by extract_mcs (greedy or exact) blocks the
\* goal when all of S is forced True, and every S minus one control leaves the
\* goal satisfiable.
C1_EmittedSetsAreMinimalBlocking ==
    last.op = "extract_mcs" =>
        \A S \in last.mcs_sets :
            /\ check_satisfiability(goal, ForceTrue(S)) = "unsat"
            /\ \A c \in S : check_satisfiability(goal, ForceTrue(S \ {c})) = "sat"

\* C2: the result of compute_inevitability has 0 <= score <= 1 and its
\* is_inevitable flag is true exactly when the returned two-decimal score is
\* >= goal.threshold.
C2_FlagMatchesReturnedScore ==
    last.op = "compute_inevitability" =>
        /\ last.result.score >= 0 /\ last.result.score <= 100
        /\ last.result.is_inevitable <=> (last.result.score >= goal.threshold)

\* the semantics C3 states, read off the graph: A assigns every node
EnablingParents(n) ==
    {e.source : e \in {d \in graph.edges :
        d.target = n /\ ~(get_node(graph, d.source).type = "control"
                          /\ d.edge_type = "control")}}
NegatedControlParents(n) ==
    {e.source : e \in {d \in graph.edges :
        d.target = n /\ get_node(graph, d.source).type = "control"
                     /\ d.edge_type = "control"}}
SatisfiesSemantics(A, g, M) ==
    /\ \A n \in NodeIds(graph) \ DOMAIN M :
        LET E == EnablingParents(n)
            B == NegatedControlParents(n)
        IN  IF E # {} /\ B # {}
                THEN A[n] = ((\E p \in E : A[p]) /\ ~(\E c \in B : A[c]))
            ELSE IF E # {} THEN A[n] = (\E p \in E : A[p])
            ELSE IF B # {} THEN A[n] = ~(\E c \in B : A[c])
            ELSE IF get_node(graph, n).type = "control"
                THEN A[n] = (get_node(graph, n).control_state = "active")
            ELSE IF get_node(graph, n).type = "identity" THEN A[n] = TRUE
            ELSE TRUE
    /\ \A n \in NodeIds(graph) \cap DOMAIN M : A[n] = M[n]
    /\ \A n \in g.target_assets \cup g.required_conditions : A[n]

C8_EveryControlClassifiedOnce ==
    last.op = "classify_controls" =>
        LET r == last.report
        IN  /\ \A c \in get_controls(graph) :
                Cardinality({i \in DOMAIN r.classifications :
                                r.classifications[i].control_id = c}) = 1
            /\ \A i \in DOMAIN r.classifications :
                r.classifications[i].control_id \in get_controls(graph)
            /\ r.critical_count + r.necessary_count + r.partial_count
                    + r.irrelevant_count = r.total_controls
            /\ r.total_controls = Cardinality(get_controls(graph))

\* a report over two controls that fall into different classes
C8_Witness ==
    /\ last.op = "classify_controls"
    /\ last.report.total_controls = 2
    /\ last.report.irrelevant_count = 1
    /\ last.report.critical_count = 1

\* C9: with D = |score(goal, {c: False}) - score(goal, {c: True})|, a control
\* is Irrelevant if D < 0.01, else Critical if it is in the MCS-membership set
\* passed in, else Necessary if D >= 0.20, else Partial.
C9_ClassificationRule ==
    last.op = "classify_controls" =>
        \A i \in DOMAIN last.report.classifications :
            LET c == last.report.classifications[i]
                D == Abs(compute_inevitability(goal, Pin(<<>>, c.control_id, FALSE)).score
                         - compute_inevitability(goal, Pin(<<>>, c.control_id, TRUE)).score)
            IN  c.classification =
                    IF D < 1 THEN "irrelevant"
                    ELSE IF c.control_id \in last.mcs_control_ids THEN "critical"
                    ELSE IF D >= 20 THEN "necessary"
                    ELSE "partial"

\* the controls an intervention map pins False
KeysFalse(m) == {c \in DOMAIN m : m[c] = FALSE}

\* C10: frame 0 of simulate_collapse disables nothing; every later frame names
\* a control that no earlier frame named, and the set of controls pinned False
\* after it is a proper superset of the set before it.
C10_EachFrameDisablesNewControl ==
    [][Len(frames') > Len(frames) =>
        LET f == frames'[Len(frames')]
        IN  IF Len(frames) = 0
                THEN /\ f.step = 0
                     /\ f.control_disabled = NoControl
                     /\ KeysFalse(disabled_controls') = {}
            ELSE /\ f.step > 0
                 /\ f.control_disabled \in get_controls(graph)
                 /\ \A k \in DOMAIN frames : frames[k].control_disabled # f.control_disabled
                 /\ KeysFalse(disabled_controls) \subseteq KeysFalse(disabled_controls')
                 /\ KeysFalse(disabled_controls) # KeysFalse(disabled_controls')
                 /\ f.control_disabled \in KeysFalse(disabled_controls')]_vars

\* a finished simulation that disabled two controls one after the other
C10_Witness ==
    /\ last.op = "simulate_collapse"
    /\ Len(last.frames) = 3
    /\ last.frames[2].control_disabled # last.frames[3].control_disabled

ControlStates(g) ==
    {<<g.nodes[i].id, g.nodes[i].control_state>> :
        i \in {j \in DOMAIN g.nodes : g.nodes[j].type = "control"}}

\* C4: when rank_control_impact exits, by return or by a failure raised while
\* a control is temporarily Inactive, every Control node has the control_state
\* it had before the call.
C4_ControlStatesRestored ==
    [][last'.op = "rank_control_impact" => ControlStates(graph') = ControlStates(graph)]_vars

\* C5: on a graph with a directed cycle SCMBuilder.build fails with a cycle
\* error that carries one to three cycles, each a cycle of the graph; no SCM
\* is built, no solver is constructed and check_satisfiability is not called.
C5_CycleFailsBeforeSolver ==
    (pc \notin {"request", "new"} /\ ~is_directed_acyclic_graph(graph)) =>
        /\ pc = "failed"
        /\ last.op = "build" /\ last.error = "cycle"
        /\ Cardinality(last.cycles) \in 1..3
        /\ \A C \in last.cycles :
            /\ C # {}
            /\ \A n \in C :
                /\ \E e \in graph.edges : e.source = n /\ e.target \in C
                /\ \E e \in graph.edges : e.target = n /\ e.source \in C
        /\ equations = "unbuilt"
        /\ solver = "none"
        /\ ~solver_called
        /\ sessions = {}

\* a request whose graph has more than three cycles has failed in build
C5_Witness ==
    /\ pc = "failed"
    /\ request # NoRequest
    /\ Cardinality(simple_cycles(graph)) > 3
    /\ Cardinality(last.cycles) = 3

\* a request C7 wants rejected
InvalidGraph(r) ==
    LET node_ids == {r.nodes[i].id : i \in DOMAIN r.nodes}
    IN  \/ r.nodes = <<>>
        \/ r.goals = <<>>
        \/ \E e \in r.edges : e.source \notin node_ids \/ e.target \notin node_ids
        \/ \E i \in DOMAIN r.goals : ~(r.goals[i].target_assets \subseteq node_ids)

\* C7: a custom request with no nodes, no goals, an edge end that is no node
\* id or a goal target that is no node id is rejected with a 400 before the SCM
\* is built: no solver call is made and no session is cached.
C7_InvalidRequestRejected ==
    (pc # "request" /\ InvalidGraph(request)) =>
        /\ pc = "done"
        /\ last.op = "run_custom_analysis" /\ last.status_code = 400
        /\ equations = "unbuilt"
        /\ ~solver_called
        /\ sessions = {}

\* C6: when the base satisfiability check times out, compute_inevitability
\* treats it as Sat: the result carries status Timeout and score 1.0.
C6_TimeoutScoresOne ==
    (last.op = "compute_inevitability" /\ last.interventions \in z3_unknown) =>
        /\ last.result.status = "timeout"
        /\ last.result.score = 100

StateAssumptionOf(c) ==
    {k \in DOMAIN assumptions :
        /\ assumptions[k].id = CtrlAssumptionId(node_text[c].id)
        /\ assumptions[k].name =
                CtrlAssumptionName(node_text[c].name, graph.nodes[c].control_state)}

\* C12: toggling the state assumption of a control c, by its id or its name,
\* to v returns what what_if(goal, {c.id: v}) returns: c alone is pinned.
C12_ToggleIsSinglePinWhatIf ==
    last.op = "toggle_assumption" =>
        \A c \in ControlPositions(graph) : \A k \in StateAssumptionOf(c) :
            last.assumption_id \in {assumptions[k].id, assumptions[k].name} =>
                last.result = what_if(goal, Pin(<<>>, graph.nodes[c].id, last.new_value), <<>>)

\* the order C13 gives the stages
StageOrder ==
    <<"inevitability", "mcs", "theater", "explanation", "economic", "fragility",
      "collapse_simulation", "collapse_ranking", "optimizer", "certifier", "forecaster",
      "collision", "adversarial", "probability">>
StageRank(stage) == CHOOSE r \in DOMAIN StageOrder : StageOrder[r] = stage

\* C13: a finished pipeline run has run every stage of the order
\* inevitability, MCS, theater, explanation, economic, fragility, collapse
\* simulation, collapse ranking, optimizer, certifier, forecaster, collision,
\* adversarial, probability, and no call of a stage comes before a call of an
\* earlier stage (for any goal).
C13_StagesInFixedOrder ==
    (pc = "done" /\ last.op = "pipeline") =>
        /\ \A r \in DOMAIN StageOrder :
            \E k \in DOMAIN last.stages : last.stages[k].stage = StageOrder[r]
        /\ \A j, k \in DOMAIN last.stages :
            StageRank(last.stages[j].stage) < StageRank(last.stages[k].stage) => j < k

\* the session a finished analysis cached
SessionOf(analysis_id, g, eqs, gs) ==
    [analysis_id |-> analysis_id, graph |-> g, equations |-> eqs, goals |-> gs,
     case_study |-> NoCaseStudy]

\* C14: two analyses of distinct graph objects, interleaved call by call in
\* any order, each end as they end alone: the graph, goals, equations and
\* results of a finished analysis are those derived from its own request, no
\* call of the other analysis having written them, and the session each
\* cached is still in the cache as it was written, under an id of its own.
C14_InterleavedAnalysesIndependent ==
    /\ (pc = "done" /\ last.status_code = 200) =>
        /\ graph = [nodes |-> request.nodes, edges |-> request.edges]
        /\ goals = request.goals
        /\ equations = _generate_equations(graph)
        /\ last.inevitability_results =
                [i \in DOMAIN goals |-> compute_inevitability(goals[i], <<>>)]
        /\ last.mcs_results =
                [i \in DOMAIN goals |->
                    extract_mcs(goals[i], request.max_mcs_cardinality, request.algorithm)]
        /\ SessionOf(last.analysis_id, graph, equations, goals) \in sessions
    /\ other.pc \in {"built", "ready", "done"} =>
        other.equations = _generate_equations(other.graph)
    /\ other.pc = "done" =>
        SessionOf(other.analysis_id, other.graph, other.equations, other.goals) \in sessions
    /\ \A s, t \in sessions : s.analysis_id = t.analysis_id => s = t

\* both analyses have finished, the second having cached its session of
\* another graph before the first cached its own
C14_Witness ==
    /\ pc = "done" /\ last.status_code = 200
    /\ other.pc = "done"
    /\ other.analysis_id < last.analysis_id
    /\ other.graph # graph
    /\ Cardinality(sessions) = 2

\* what a step of an analyzer leaves alone: the node and edge lists with every
\* control_state, the node texts, the equations and the assumptions
SCMUnchanged ==
    /\ graph' = graph
    /\ node_text' = node_text
    /\ equations' = equations
    /\ assumptions' = assumptions

\* the maps the caller handed to the query that has just returned are as the
\* caller built them
CallerMapsUnmodified ==
    /\ last'.op = "compute_inevitability" => caller_args' = <<last'.interventions>>
    /\ last'.op = "what_if" =>
        caller_args' = <<last'.interventions, last'.baseline_interventions>>
    /\ last'.op = "sensitivity_analysis" => caller_args' = <<last'.baseline_interventions>>

\* C15: once the SCM is built, no call of compute_inevitability, extract_mcs,
\* generate_mcs_proof, classify_controls, what_if, sensitivity_analysis,
\* compute_fragility or simulate_collapse, in any sequence, changes the graph
\* (node and edge lists, control states), the equations or the assumptions,
\* which stay those derived from the graph at construction; the intervention
\* maps of the caller are not modified; and simulate_collapse records the
\* controls it disables in its own intervention map only.
C15_AnalyzersLeaveScmUnchanged ==
    [][pc # "new" =>
        /\ SCMUnchanged
        /\ equations = _generate_equations(graph)
        /\ assumptions = _extract_assumptions(graph, node_text)
        /\ CallerMapsUnmodified
        /\ pc' = "collapsing" =>
            /\ DOMAIN disabled_controls' = already_disabled'
            /\ caller_args' = caller_args]_vars

\* a sensitivity analysis that found a variable to report, on a baseline that
\* pins a node, after a collapse simulation that disabled a control
C15_Witness ==
    /\ Len(frames) >= 2
    /\ last.op = "sensitivity_analysis"
    /\ last.results # <<>>
    /\ caller_args # <<>> /\ caller_args[1] # <<>>

\* the trivial chain has been built and a query on it has returned
OnTrivialChain == graph = TrivialChain.graph /\ goals = <<TrivialChain.goal>>

\* C16 as stated: on the trivial chain compute_inevitability without
\* interventions returns score 1.0 and is_inevitable True, and greedy
\* extract_mcs returns the one MCS {fw}.
C16_TrivialChainScoresOne ==
    OnTrivialChain =>
        /\ (last.op = "compute_inevitability" /\ last.interventions = <<>>) =>
            last.result.score = 100 /\ last.result.is_inevitable
        /\ (last.op = "extract_mcs" /\ last.algorithm = "greedy") =>
            last.mcs_sets = {{4}}

\* C16, amended: on the trivial chain the active control fw blocks web in the
\* base check, which is Unsat, so compute_inevitability without interventions
\* returns score 0.0 and is_inevitable False; greedy extract_mcs returns the
\* one MCS {fw}.
C16_TrivialChainIsBlocked ==
    OnTrivialChain =>
        /\ (last.op = "compute_inevitability" /\ last.interventions = <<>>) =>
            /\ last.result.score = 0
            /\ ~last.result.is_inevitable
            /\ last.result.status = "unsat"
        /\ (last.op = "extract_mcs" /\ last.algorithm = "greedy") =>
            last.mcs_sets = {{4}}

\* compute_inevitability without interventions has returned on the chain
C16_Witness ==
    /\ OnTrivialChain
    /\ last.op = "compute_inevitability" /\ last.interventions = <<>>

\* the identities in node-list order
IdentityList == SelectSeq(graph.nodes, LAMBDA n : n.type = "identity")

\* there are exactly two identities; the goal is Sat with the first alone
\* pinned True and Unsat with the second alone pinned True; and
\* compute_inevitability has returned for the query without interventions
OneOfTwoIdentitiesReaches ==
    /\ last.op = "compute_inevitability" /\ last.interventions = <<>>
    /\ Len(IdentityList) = 2
    /\ check_satisfiability(goal, test_interventions(<<>>, IdentityList[1].id)) = "sat"
    /\ check_satisfiability(goal, test_interventions(<<>>, IdentityList[2].id)) = "unsat"

\* some control has a target asset among its children
TargetGuarded ==
    \E c \in get_controls(graph) : get_children(graph, c) \cap goal.target_assets # {}

BlocksButNoSingleRemoval(S) ==
    /\ check_satisfiability(goal, ForceTrue(S)) = "unsat"
    /\ \A c \in S : check_satisfiability(goal, ForceTrue(S \ {c})) = "sat"

\* the sizes the exact search visits
ExactSizes == 1..Min(last.max_cardinality, Cardinality(get_controls(graph)))

ImpactOrder ==
    SortByImpact({[ctrl |-> c, impact |-> Impact(goal, c), position |-> PosOf(graph, c)] :
                    c \in get_controls(graph)})

\* C19: greedy extract_mcs returns at most one MCS set; it returns none exactly
\* when the graph has no controls or forcing every control True leaves the
\* goal satisfiable; and a set it returns is the shortest prefix of the
\* controls in descending marginal-impact order whose forcing yields Unsat.
C19_GreedyReturnsShortestBlockingPrefix ==
    (last.op = "extract_mcs" /\ last.algorithm = "greedy") =>
        /\ Cardinality(last.mcs_sets) <= 1
        /\ last.mcs_sets = {} <=>
                \/ get_controls(graph) = {}
                \/ check_satisfiability(goal, ForceTrue(get_controls(graph))) = "sat"
        /\ \A S \in last.mcs_sets :
            \E k \in DOMAIN ImpactOrder :
                /\ S = SeqToSet(SubSeq(ImpactOrder, 1, k))
                /\ check_satisfiability(goal, ForceTrue(S)) = "unsat"
                /\ \A j \in 1..(k - 1) :
                    check_satisfiability(goal,
                        ForceTrue(SeqToSet(SubSeq(ImpactOrder, 1, j)))) = "sat"

\* the interventions of the call with identity i pinned True and every other
\* identity pinned False
PinnedAlone(interventions, i) ==
    [x \in DOMAIN interventions \cup Identities |->
        IF x \in Identities THEN x = i ELSE interventions[x]]

\* k: the identities from which alone the goal is Sat
ReachingIdentities(interventions) ==
    {i \in Identities : check_satisfiability(goal, PinnedAlone(interventions, i)) = "sat"}

\* round-to-2-decimals of max(k/n, 0.3, b), in hundredths
ReferenceScore(k, n, unguarded) ==
    Round2(Max(Max(100 * k, 30 * n), IF unguarded THEN 80 * n ELSE 0), n)

GradeOfAfi(num, den) ==
    IF 10 * num <= den THEN "A"
    ELSE IF 4 * num <= den THEN "B"
    ELSE IF 20 * num <= 9 * den THEN "C"
    ELSE IF 10 * num <= 7 * den THEN "D"
    ELSE "F"

\* C21: for every graph and goal list, with or without Control nodes, the
\* profile compute_fragility returns has 0 <= afi <= 1 and the grade its afi
\* alone determines (A up to 0.10, B up to 0.25, C up to 0.45, D up to 0.70,
\* F above), and spof_count counts the controls whose collapse radius is the
\* number of goals.
C21_GradeFollowsAfi ==
    last.op = "compute_fragility" =>
        /\ 0 <= last.profile.afi[1]
        /\ last.profile.afi[1] <= last.profile.afi[2]
        /\ last.profile.grade = GradeOfAfi(last.profile.afi[1], last.profile.afi[2])
        /\ last.profile.spof_count =
                Cardinality({c \in get_controls(graph) :
                    compute_collapse_radius(c).collapse_radius = Len(goals)})

\* C21 without the graphs that have no control: there the grade follows afi
C21_GradeFollowsAfiWithControls ==
    (last.op = "compute_fragility" /\ get_controls(graph) # {}) =>
        /\ 0 <= last.profile.afi[1]
        /\ last.profile.afi[1] <= last.profile.afi[2]
        /\ last.profile.grade = GradeOfAfi(last.profile.afi[1], last.profile.afi[2])
        /\ last.profile.spof_count =
                Cardinality({c \in get_controls(graph) :
                    compute_collapse_radius(c).collapse_radius = Len(goals)})

\* the control is neither a target asset or required condition of the goal
\* nor the start of a directed path to one
LeadsNowhere(ctrl, g) ==
    (Descendants(graph, ctrl) \cup {ctrl})
        \cap (g.target_assets \cup g.required_conditions) = {}

\* the annual costs of a set of controls, a control without one counting 0
RECURSIVE SumCosts(_)
SumCosts(S) ==
    IF S = {} THEN 0
    ELSE LET c == CHOOSE x \in S : TRUE
         IN  (IF node_text[c].annual_cost = NoCost THEN 0 ELSE node_text[c].annual_cost)
                + SumCosts(S \ {c})

\* C22: a control from which no directed path (the empty path included) leads
\* to a target asset or required condition of the goal is classified
\* Irrelevant for that goal, whatever its state, its cost and the
\* MCS-membership set passed in, and the report's total_waste is the sum of
\* the annual costs of the controls classified Irrelevant, so it counts the
\* cost of every such control.
C22_UnconnectedControlIsWaste ==
    last.op = "classify_controls" =>
        /\ \A i \in DOMAIN last.report.classifications :
            LeadsNowhere(last.report.classifications[i].control_id, goal)
                => last.report.classifications[i].classification = "irrelevant"
        /\ last.report.total_waste =
                SumCosts({last.report.classifications[i].control_id :
                            i \in {j \in DOMAIN last.report.classifications :
                                last.report.classifications[j].classification
                                    = "irrelevant"}})
        /\ last.report.total_waste >=
                SumCosts({c \in get_controls(graph) : LeadsNowhere(c, goal)})

\* an active control costing 35000 and wired only to a node outside every
\* attack path, passed in as an MCS member: Irrelevant, waste 35000
C22_Witness ==
    /\ last.op = "classify_controls"
    /\ \E c \in get_controls(graph) :
        /\ LeadsNowhere(c, goal)
        /\ get_children(graph, c) # {}
        /\ get_node(graph, c).control_state = "active"
        /\ node_text[c].annual_cost = 35000
        /\ c \in last.mcs_control_ids
    /\ goal.target_assets # {}
    /\ last.report.total_waste = 35000

(***************************************************************************)
(* probability_engine.py: monte_carlo_simulate.  random.random() reads the *)
(* generator of the random module, which nothing in the repository seeds:  *)
(* a roll whose threshold lies strictly between 0 and 1 may go either way. *)
(***************************************************************************)
AdversaryProfiles == {"apt", "organized_crime", "script_kiddie"}
MaxSimulations == 2    \* n_simulations of a modelled call

\* the elements of a set of node ids in ascending order
RECURSIVE Ascending(_)
Ascending(S) ==
    IF S = {} THEN <<>>
    ELSE LET least == CHOOSE x \in S : \A y \in S : x <= y
         IN  <<least>> \o Ascending(S \ {least})

\* CausalSolver._trace_path, the loop over the parents unrolled: the path and
\* the visited set after the call on node_id (a path holds node names, kept
\* here as the nodes that bear them)
RECURSIVE _trace_path(_, _, _, _), TraceParents(_, _, _, _)
_trace_path(node_id, witness, path, visited) ==
    IF node_id \in visited THEN [path |-> path, visited |-> visited]
    ELSE IF ~(node_id \in DOMAIN witness /\ witness[node_id])
        THEN [path |-> path, visited |-> visited \cup {node_id}]
    ELSE LET after == TraceParents(Ascending(get_parents(graph, node_id)), witness,
                                   path, visited \cup {node_id})
         IN  [path |-> IF node_id \in NodeIds(graph) THEN Append(after.path, node_id)
                       ELSE after.path,
              visited |-> after.visited]
TraceParents(parents, witness, path, visited) ==
    IF parents = <<>> THEN [path |-> path, visited |-> visited]
    ELSE IF Head(parents) \in DOMAIN witness /\ witness[Head(parents)]
        THEN LET after == _trace_path(Head(parents), witness, path, visited)
             IN  TraceParents(Tail(parents), witness, after.path, after.visited)
    ELSE TraceParents(Tail(parents), witness, path, visited)

\* CausalSolver._extract_attack_path: every target traced with a visited set of
\* its own, into one path
RECURSIVE TraceTargets(_, _, _)
TraceTargets(targets, witness, path) ==
    IF targets = <<>> THEN path
    ELSE TraceTargets(Tail(targets), witness,
                      _trace_path(Head(targets), witness, path, {}).path)

_extract_attack_path(witness, g) == TraceTargets(Ascending(g.target_assets), witness, <<>>)

\* the witness_path compute_inevitability may put into its result: the path of
\* one of the models Z3 may return, or none (the empty path here) when the
\* base check is not Sat
WitnessPaths(g) ==
    IF check_satisfiability(g, <<>>) = "sat"
        THEN {_extract_attack_path(A, g) : A \in Z3Models(g, <<>>)}
    ELSE {<<>>}

\* _get_edge_probability finds an edge whose source and target ids are the
\* two names of the hop, and reads its undeclared exploit_probability
HopMatchesEdge(src, tgt) ==
    \E e \in graph.edges :
        /\ node_text[e.source].id = node_text[src].name
        /\ node_text[e.target].id = node_text[tgt].name

\* the bypass roll reads the undeclared bypass_probability of an active or
\* partial control that blocks the node whose id is the name of the hop's end
HopMatchesControl(tgt) ==
    \E eq \in equations :
        /\ node_text[eq.target_variable].id = node_text[tgt].name
        /\ \E c \in eq.negated_parents :
            /\ c \in get_controls(graph)
            /\ get_node(graph, c).control_state \in {"active", "partial"}

\* _simulate_path on a witness path from hop i on: the ways one attempt may
\* end.  effective_prob is 0.5 times the skill multiplier (0.65, 0.5 or 0.3)
RECURSIVE _simulate_path(_, _)
_simulate_path(path, i) ==
    IF i >= Len(path) THEN {"succeeded"}
    ELSE IF HopMatchesEdge(path[i], path[i + 1]) THEN {"AttributeError"}
    ELSE {"failed"} \cup (IF HopMatchesControl(path[i + 1]) THEN {"AttributeError"}
                          ELSE _simulate_path(path, i + 1))

\* the first path _enumerate_attack_paths lists starts at the first identity
\* from which a target is found: the kinds of path that may come first (the
\* identity alone when it is a target, a path of real edges otherwise)
FirstEnumeratedPath(g) ==
    LET starts == {i \in Identities : \E t \in g.target_assets :
                        t = i \/ t \in Descendants(graph, i)}
        first == CHOOSE i \in starts : \A j \in starts : i <= j
    IN  IF starts = {} THEN {}
        ELSE {IF t = first THEN "no hop" ELSE "hops" :
                t \in {u \in g.target_assets : u = first \/ u \in Descendants(graph, first)}}

\* the result of n attempts each of which may end in any of `ends`
Attempts(ends, n_simulations) ==
    (IF "AttributeError" \in ends THEN {[raises |-> "AttributeError"]} ELSE {})
    \cup {[raises |-> "none", simulations |-> n_simulations, successes |-> s,
           probability |-> <<s, n_simulations>>,
           confidence_interval |-> [lower |-> <<s, n_simulations>>,
                                    upper |-> <<s, n_simulations>>]] :
            s \in {k \in 0..n_simulations :
                    /\ (k > 0 => "succeeded" \in ends)
                    /\ (k < n_simulations => "failed" \in ends)}}

\* ProbabilityEngine.monte_carlo_simulate for at most 30 simulations (the
\* interval is then the probability itself): the results the call may return
monte_carlo_simulate(g, witness_path, n_simulations) ==
    IF FirstEnumeratedPath(g) # {}
        THEN UNION {Attempts(IF kind = "no hop" THEN {"succeeded"} ELSE {"AttributeError"},
                             n_simulations) : kind \in FirstEnumeratedPath(g)}
    ELSE IF witness_path # <<>>
        THEN Attempts(_simulate_path(witness_path, 1), n_simulations)
    ELSE {[raises |-> "none", simulations |-> 0, successes |-> 0, probability |-> <<0, 1>>,
           confidence_interval |-> [lower |-> <<0, 1>>, upper |-> <<0, 1>>]]}

\* a first run of the simulation on the result of compute_inevitability
MonteCarloSimulate ==
    /\ pc = "ready"
    /\ \E profile \in AdversaryProfiles, n_simulations \in 1..MaxSimulations,
          witness_path \in WitnessPaths(goal) :
        \E result \in monte_carlo_simulate(goal, witness_path, n_simulations) :
            last' = [op |-> "monte_carlo_simulate", adversary_profile |-> profile,
                     n_simulations |-> n_simulations, witness_path |-> witness_path,
                     result |-> result]
    /\ pc' = "done"
    /\ solver_called' = TRUE
    /\ UNCHANGED <<scmVars, solver, collapseVars, apiVars>>

\* a further run with the graph, goal, profile, inevitability result and
\* number of simulations of the run before
MonteCarloAgain ==
    /\ pc = "done"
    /\ last.op = "monte_carlo_simulate"
    /\ \E result \in monte_carlo_simulate(goal, last.witness_path, last.n_simulations) :
        last' = [last EXCEPT !.result = result]
    /\ UNCHANGED <<scmVars, solver, solver_called, collapseVars, apiVars, pc>>

InitMonteCarlo == InitAnalysis(SingleTargetAnalyses)
NextMonteCarlo == Build \/ NewSolver \/ MonteCarloSimulate \/ MonteCarloAgain
SpecMonteCarlo == InitMonteCarlo /\ [][NextMonteCarlo]_vars

\* C23: two runs of monte_carlo_simulate with identical graph, goal, adversary
\* profile and number of simulations (there is no seed to pass) return
\* identical successes, probability and confidence interval.
C23_SameInputsSameOutcome ==
    [][(/\ last.op = "monte_carlo_simulate"
        /\ last'.op = "monte_carlo_simulate"
        /\ last'.adversary_profile = last.adversary_profile
        /\ last'.n_simulations = last.n_simulations
        /\ last'.witness_path = last.witness_path
        /\ graph' = graph /\ goals' = goals)
            => last'.result = last.result]_vars

(***************************************************************************)
(* api.py: custom analysis requests with up to two goals.                  *)
(***************************************************************************)
\* a fan graph submitted with no goal, with the goal on its target asset, or
\* with that goal followed by a second goal on its first node
GoalListRequests ==
    UNION {{MkRequest(a.graph.nodes, a.graph.edges, gs) :
                gs \in {<<>>, <<a.goal>>,
                        <<a.goal, [a.goal EXCEPT !.id = "goal2", !.target_assets = {1}]>>}}
           : a \in FanAnalyses({DefaultThreshold})}

InitResponse ==
    /\ request \in GoalListRequests
    /\ node_text = DefaultText(request.nodes)
    /\ graph = [nodes |-> <<>>, edges |-> {}]
    /\ goals = <<>>
    /\ z3_unknown = {}
    /\ pc = "request"
    /\ InitIdle
SpecResponse == InitResponse /\ [][NextApi]_vars

\* C24: for every accepted analysis request with n >= 1 goals, the response
\* carries an analysis_id and exactly n inevitability results, n MCS results
\* and n theater reports, the i-th of each being the one of the i-th goal of
\* the request, and a session is cached under that analysis_id.
C24_OneResultPerGoal ==
    (pc = "done" /\ last.op = "run_custom_analysis" /\ last.status_code = 200) =>
        /\ Len(request.goals) >= 1
        /\ DOMAIN last.inevitability_results = DOMAIN request.goals
        /\ DOMAIN last.mcs_results = DOMAIN request.goals
        /\ DOMAIN last.theater_reports = DOMAIN request.goals
        /\ \A i \in DOMAIN request.goals :
            /\ last.inevitability_results[i] = compute_inevitability(request.goals[i], <<>>)
            /\ last.mcs_results[i] =
                    extract_mcs(request.goals[i], request.max_mcs_cardinality,
                                request.algorithm)
            /\ last.theater_reports[i].goal_id = request.goals[i].id
            /\ last.theater_reports[i] =
                    classify_controls(request.goals[i], mcs_ids(last.mcs_results[i]))
        /\ Cardinality({s \in sessions : s.analysis_id = last.analysis_id}) = 1
        /\ \A s \in sessions :
            s.analysis_id = last.analysis_id =>
                s.goals = request.goals /\ s.graph.nodes = request.nodes

\* a response for two goals whose results differ
C24_Witness ==
    /\ pc = "done" /\ last.op = "run_custom_analysis" /\ last.status_code = 200
    /\ Len(request.goals) = 2
    /\ Len(last.inevitability_results) = 2
    /\ last.inevitability_results[1] # last.inevitability_results[2]
    /\ last.mcs_results[1] # last.mcs_results[2]
    /\ \E s \in sessions : s.analysis_id = last.analysis_id

\* the goal's target assets and required conditions
GoalNodes(g) == g.target_assets \cup g.required_conditions

\* every directed path from a to a target asset or required condition of the
\* goal passes through n: a is none of them, and none is reached from a once
\* the edges of n are taken away
AllPathsThrough(a, n, g) ==
    /\ a # n
    /\ a \notin GoalNodes(g)
    /\ Descendants([graph EXCEPT !.edges = {e \in @ : e.source # n /\ e.target # n}], a)
            \cap GoalNodes(g) = {}

\* the intervention map without its entry for a
Unpin(interventions, a) == [x \in DOMAIN interventions \ {a} |-> interventions[x]]

\* C25: interventions sever equations: if node n is pinned by the intervention
\* map of check_satisfiability, then adding, removing or flipping an
\* intervention on any other node a all of whose directed paths to the goal's
\* target assets and required conditions pass through n does not change the
\* returned status.
C25_PinnedNodeShieldsUpstream ==
    last.op = "check_satisfiability" =>
        \A n \in DOMAIN last.interventions, a \in NodeIds(graph) :
            AllPathsThrough(a, n, goal) =>
                /\ check_satisfiability(goal, Pin(last.interventions, a, TRUE)) = last.status
                /\ check_satisfiability(goal, Pin(last.interventions, a, FALSE)) = last.status
                /\ check_satisfiability(goal, Unpin(last.interventions, a)) = last.status

\* n is pinned with a parent a that reaches the goal only through n, and the
\* pin on a, which decides the status once n is left free, decides nothing
C25_Witness ==
    /\ last.op = "check_satisfiability"
    /\ \E n \in DOMAIN last.interventions, a \in DOMAIN last.interventions :
        /\ AllPathsThrough(a, n, goal)
        /\ a \in get_parents(graph, n)
        /\ n \in GoalNodes(goal) \/ Descendants(graph, n) \cap GoalNodes(goal) # {}
        /\ last.status = "sat"
        /\ check_satisfiability(goal, Unpin(last.interventions, n))
            # check_satisfiability(goal,
                    Pin(Unpin(last.interventions, n), a, ~last.interventions[a]))

\* the sum over the goals from k on of max(0, score without c - score with c),
\* given the controls already pinned
RECURSIVE SumIncrease(_, _, _)
SumIncrease(c, pinned, k) ==
    IF k > Len(goals) THEN 0
    ELSE Max(0, compute_inevitability(goals[k], Pin(pinned, c, FALSE)).score
                - compute_inevitability(goals[k], Pin(pinned, c, TRUE)).score)
         + SumIncrease(c, pinned, k + 1)

\* the goals that cross their threshold when c goes from on to off
GoalsCollapsed(c, pinned) ==
    {k \in DOMAIN goals :
        /\ compute_inevitability(goals[k], Pin(pinned, c, TRUE)).score < goals[k].threshold
        /\ compute_inevitability(goals[k], Pin(pinned, c, FALSE)).score >= goals[k].threshold}

\* 100 * goals_collapsed + 10 * total_increase, times 100
StateAwareRank(c, pinned) ==
    10000 * Cardinality(GoalsCollapsed(c, pinned)) + 10 * SumIncrease(c, pinned, 1)

\* the not-yet-disabled control of the highest rank, the first in node order
\* among equals
HighestRanked(pinned) ==
    CHOOSE c \in get_controls(graph) \ DOMAIN pinned :
        \A d \in get_controls(graph) \ DOMAIN pinned :
            \/ StateAwareRank(c, pinned) > StateAwareRank(d, pinned)
            \/ StateAwareRank(c, pinned) = StateAwareRank(d, pinned)
                /\ PosOf(graph, c) <= PosOf(graph, d)

\* all controls are disabled, or the best remaining control has collapse
\* radius 0 and total inevitability increase 0
NothingLeftToCollapse(pinned) ==
    \/ get_controls(graph) \subseteq DOMAIN pinned
    \/ /\ GoalsCollapsed(HighestRanked(pinned), pinned) = {}
       /\ SumIncrease(HighestRanked(pinned), pinned, 1) = 0

\* what a step of simulate_collapse does to the frames: a new frame carries
\* the next step number, there are never more frames after frame 0 than
\* controls, a frame after frame 0 disables the highest ranked of the
\* remaining controls, and the call goes on or returns as there is something
\* left to collapse or not
CollapseStepsAsRanked ==
    /\ Len(frames') > Len(frames) =>
        /\ Len(frames') = Len(frames) + 1
        /\ frames'[Len(frames')].step = Len(frames)
        /\ Len(frames) <= Cardinality(get_controls(graph))
        /\ \A k \in DOMAIN frames : frames'[k] = frames[k]
        /\ Len(frames) > 0 =>
            /\ ~NothingLeftToCollapse(disabled_controls)
            /\ frames'[Len(frames')].control_disabled = HighestRanked(disabled_controls)
            /\ disabled_controls' = Pin(disabled_controls, HighestRanked(disabled_controls), FALSE)
    /\ (pc = "collapsing" /\ pc' = "done") =>
        /\ NothingLeftToCollapse(disabled_controls)
        /\ last'.frames = frames

\* C26: simulate_collapse always terminates and emits frame 0 followed by at
\* most |controls| frames with consecutive step numbers 1..L; at every step it
\* disables the not-yet-disabled control with the highest state-aware
\* criticality rank (100*goals_collapsed + 10*total_increase, first in node
\* order on ties), and it stops exactly when all controls are disabled or the
\* best remaining control has collapse radius 0 and total inevitability
\* increase 0.
C26_CollapseTerminatesAsRanked ==
    /\ [][CollapseStepsAsRanked]_vars
    /\ (pc = "collapsing") ~> (pc = "done" /\ last.op = "simulate_collapse")

\* a finished simulation over two controls of equal rank that disabled the
\* first of them in node order first
C26_Witness ==
    /\ last.op = "simulate_collapse"
    /\ Len(last.frames) >= 2
    /\ Cardinality(get_controls(graph)) = 2
    /\ \A c \in get_controls(graph) :
        /\ StateAwareRank(c, <<>>) > 0
        /\ last.frames[2].control_disabled <= c
        /\ StateAwareRank(c, <<>>) = StateAwareRank(last.frames[2].control_disabled, <<>>)

(***************************************************************************)
(* economic.py: EconomicAnalyzer.analyze over the theater reports of the   *)
(* goals.  Annual costs are whole even numbers, so the sums and the halves *)
(* of them are exact doubles and round(x, 2) leaves them alone.            *)
(***************************************************************************)
Reversed(seq) == [i \in DOMAIN seq |-> seq[Len(seq) + 1 - i]]

\* for report in theater_reports: for c in report.classifications: the
\* classifications whose control_id was not seen before, in that order
RECURSIVE FirstSeen(_, _, _)
FirstSeen(theater_reports, seen_controls, all_classifications) ==
    IF theater_reports = <<>> THEN all_classifications
    ELSE LET cs == Head(theater_reports).classifications
             fresh == SelectSeq(cs, LAMBDA c : c.control_id \notin seen_controls)
         IN  FirstSeen(Tail(theater_reports),
                       seen_controls \cup {cs[i].control_id : i \in DOMAIN cs},
                       all_classifications \o fresh)

\* the EconomicReport (ratios, top_waste_controls, recommendations and ROI
\* projections left out)
analyze(theater_reports) ==
    LET all_classifications == FirstSeen(theater_reports, {}, <<>>)
        total_spend == CostOf(all_classifications, "irrelevant")
                        + CostOf(all_classifications, "partial")
                        + CostOf(all_classifications, "necessary")
                        + CostOf(all_classifications, "critical")
        wasted == CostOf(all_classifications, "irrelevant")
        partial_waste == CostOf(all_classifications, "partial") \div 2
    IN  [total_security_spend |-> total_spend,
         effective_spend |-> total_spend - wasted - partial_waste,
         wasted_spend |-> wasted,
         partial_waste |-> partial_waste]

\* the theater reports of the goals as _run_analysis_pipeline collects them
PipelineTheaterReports(max_mcs_cardinality, algorithm) ==
    [i \in DOMAIN goals |->
        classify_controls(goals[i],
                          mcs_ids(extract_mcs(goals[i], max_mcs_cardinality, algorithm)))]

\* economic.analyze(theater_reports), on the reports in the order of the goals
\* or in the opposite order
AnalyzeEconomics ==
    /\ pc = "ready"
    /\ \E algorithm \in {"greedy", "exact"}, opposite \in BOOLEAN :
        LET reports == PipelineTheaterReports(DefaultMaxCardinality, algorithm)
            theater_reports == IF opposite THEN Reversed(reports) ELSE reports
        IN  last' = [op |-> "analyze", theater_reports |-> theater_reports,
                     report |-> analyze(theater_reports)]
    /\ pc' = "done"
    /\ solver_called' = (solver_called \/ goals # <<>>)
    /\ UNCHANGED <<scmVars, solver, collapseVars, apiVars>>

\* a fan graph whose controls cost nothing or 35000, analysed for the goal on
\* its target asset and, before or after it, a goal on another of its nodes
InitEconomic ==
    /\ \E a \in FanAnalyses({DefaultThreshold}) :
        /\ graph = a.graph
        /\ node_text \in {t \in CostTexts(a.graph) :
                            \A i \in ControlPositions(a.graph) : t[i].annual_cost # NoCost}
        /\ goals \in {<<a.goal>>}
            \cup UNION {{<<a.goal, [a.goal EXCEPT !.id = "goal2", !.target_assets = {t}]>>,
                          <<[a.goal EXCEPT !.id = "goal2", !.target_assets = {t}], a.goal>>}
                        : t \in NodeIds(a.graph) \ (a.goal.target_assets \cup get_controls(a.graph))}
    /\ z3_unknown = {}
    /\ request = NoRequest
    /\ pc = "new"
    /\ InitIdle
NextEconomic == Build \/ NewSolver \/ AnalyzeEconomics
SpecEconomic == InitEconomic /\ [][NextEconomic]_vars

\* the controls some theater report lists, and those every report that lists
\* them classifies Irrelevant
ControlsListed(theater_reports) ==
    UNION {{theater_reports[i].classifications[j].control_id :
                j \in DOMAIN theater_reports[i].classifications}
           : i \in DOMAIN theater_reports}

IrrelevantEverywhere(theater_reports) ==
    {c \in ControlsListed(theater_reports) :
        \A i \in DOMAIN theater_reports :
            \A j \in DOMAIN theater_reports[i].classifications :
                theater_reports[i].classifications[j].control_id = c
                    => theater_reports[i].classifications[j].classification = "irrelevant"}

\* C27: EconomicAnalyzer.analyze counts a control's annual_cost in
\* wasted_spend only if that control is classified Irrelevant in every goal's
\* TheaterReport, and the resulting wasted_spend, partial_waste and
\* effective_spend do not depend on the order of the theater reports.
C27_WasteOnlyIfIrrelevantEverywhere ==
    last.op = "analyze" =>
        /\ last.report.wasted_spend = SumCosts(IrrelevantEverywhere(last.theater_reports))
        /\ analyze(Reversed(last.theater_reports)) = last.report

(***************************************************************************)
(* compute_inevitability and the identities the caller pins.               *)
(***************************************************************************)
\* the identities the intervention map pins False
PinnedOff(interventions) ==
    {i \in Identities \cap DOMAIN interventions : ~interventions[i]}

\* the identities that enable the goal on their own, those the caller pins
\* False not counted
EnablingIdentities(g, interventions) ==
    {i \in Identities \ PinnedOff(interventions) :
        check_satisfiability(g, test_interventions(interventions, i)) = "sat"}

\* C28: compute_inevitability respects caller interventions on Identity
\* nodes: an identity that the caller's intervention map pins False is never
\* counted among the k identities that enable the goal, so the result is the
\* one computed from the count of the enabling identities that are not pinned
\* False.
C28_PinnedOffIdentityNotCounted ==
    last.op = "compute_inevitability" =>
        last.result =
            InevitabilityResult(goal,
                check_satisfiability(goal, last.interventions),
                Cardinality(Identities),
                Cardinality(EnablingIdentities(goal, last.interventions)),
                Cardinality({c \in get_controls(graph) :
                    get_children(graph, c) \cap goal.target_assets # {}}))

(***************************************************************************)
(* Scores under intervention maps that differ in disabled controls.        *)
(***************************************************************************)
\* M with the controls of S pinned False
DisableAll(M, S) ==
    [x \in DOMAIN M \cup S |-> IF x \in S THEN FALSE ELSE M[x]]

\* compute_inevitability under M, and under M with more controls disabled
CompareDisabled ==
    /\ pc = "ready"
    /\ \E M \in Interventions(graph), S \in SUBSET get_controls(graph) \ {{}} :
        /\ DisableAll(M, S) # M
        /\ last' = [op |-> "compare_disabled", interventions |-> M, disabled |-> S,
                    result |-> compute_inevitability(goal, M),
                    result_disabled |-> compute_inevitability(goal, DisableAll(M, S))]
        /\ caller_args' = <<M, DisableAll(M, S)>>
    /\ pc' = "done"
    /\ solver_called' = TRUE
    /\ UNCHANGED <<scmVars, solver, collapseVars, request, sessions, other>>

NextMonotone == NextCollapse \/ CompareDisabled
SpecMonotone == InitCollapse /\ [][NextMonotone]_vars

\* every Control node has no parents and all of its outgoing edges are
\* Control-type edges
ControlsOnlyGuard ==
    \A c \in get_controls(graph) :
        /\ get_parents(graph, c) = {}
        /\ \A e \in graph.edges : e.source = c => e.edge_type = "control"

\* C29: in every acyclic graph where each Control node has no parents and all
\* of its outgoing edges are Control-type edges, disabling controls never
\* lowers a score: the score under a map that pins more controls False, or
\* switches controls from True to False, is at least the score under the
\* map.  Hence in simulate_collapse on such a graph each goal's score is
\* non-decreasing from frame to frame and newly_inevitable is set in at most
\* one frame per goal.
C29_DisablingNeverLowersScore ==
    (is_directed_acyclic_graph(graph) /\ ControlsOnlyGuard) =>
        /\ last.op = "compare_disabled" =>
                last.result_disabled.score >= last.result.score
        /\ \A k \in DOMAIN frames : \A i \in DOMAIN goals :
            /\ k > 1 => frames[k].goal_states[i].score >= frames[k - 1].goal_states[i].score
            /\ \A j \in DOMAIN frames :
                (frames[k].goal_states[i].newly_inevitable
                    /\ frames[j].goal_states[i].newly_inevitable) => j = k

\* the goal asks for no Control node
GoalOffControls ==
    \A i \in DOMAIN goals :
        (goals[i].target_assets \cup goals[i].required_conditions)
            \cap get_controls(graph) = {}

\* C29 (restated): the same, for goals whose target assets and required
\* conditions are not Control nodes: in an acyclic graph where each Control
\* node has no parents and only Control-type outgoing edges, disabling
\* controls never lowers the score of such a goal, and in simulate_collapse
\* its score is non-decreasing from frame to frame and newly_inevitable is
\* set in at most one frame.
C29_DisablingNeverLowersScoreOffControls ==
    GoalOffControls => C29_DisablingNeverLowersScore

\* a comparison on such a graph where disabling an active control that guards
\* the target raised the score
C29_Witness ==
    /\ is_directed_acyclic_graph(graph) /\ ControlsOnlyGuard /\ GoalOffControls
    /\ last.op = "compare_disabled"
    /\ \E c \in last.disabled :
        /\ get_node(graph, c).control_state = "active"
        /\ get_children(graph, c) \cap goal.target_assets # {}
    /\ last.result_disabled.score > last.result.score

\* a simulation on such a graph whose goal became newly inevitable in a frame
\* after frame 0 and stayed inevitable in a later frame
C29_WitnessFrames ==
    /\ is_directed_acyclic_graph(graph) /\ ControlsOnlyGuard /\ GoalOffControls
    /\ Len(frames) >= 3
    /\ frames[2].goal_states[1].newly_inevitable
    /\ frames[3].goal_states[1].status = "inevitable"

(***************************************************************************)
(* api.py: the endpoints that follow an analysis up by its analysis_id.    *)
(* The session of the model is the one of the request, so its solver and   *)
(* SCM are the ones built from `graph`.                                    *)
(***************************************************************************)
Endpoints ==
    {"counterfactual", "toggle", "collapse", "graph", "optimize", "certify", "forecast"}

\* _active_sessions.get(session_id)
SessionsOf(session_id) == {s \in sessions : s.analysis_id = session_id}

\* target_goals: all goals, or those of the goal_id given
TargetGoals(gs, goal_id) ==
    IF goal_id = "" THEN DOMAIN gs ELSE {i \in DOMAIN gs : gs[i].id = goal_id}

\* the response of one follow-up endpoint.  optimize and forecast make the
\* call the pipeline made before it cached the session, with the same
\* arguments; collapse returns what the pipeline stored.
FollowUpResponse(endpoint, session_id, interventions, goal_id) ==
    IF SessionsOf(session_id) = {} THEN [status_code |-> 404]
    ELSE LET session == CHOOSE s \in SessionsOf(session_id) : TRUE
         IN  IF endpoint \in {"counterfactual", "toggle"}
                 THEN [status_code |-> 200,
                       results |-> [i \in TargetGoals(session.goals, goal_id) |->
                                        what_if(session.goals[i], interventions, <<>>)]]
             ELSE IF endpoint = "graph"
                 THEN [status_code |-> 200, nodes |-> session.graph.nodes,
                       edges |-> session.graph.edges]
             ELSE IF endpoint = "certify"
                 \* case_study.organization: None has no attribute organization
                 THEN IF session.case_study = NoCaseStudy
                          THEN [status_code |-> 500, error |-> "AttributeError"]
                      ELSE [status_code |-> 200]
             ELSE [status_code |-> 200]

\* the maps a follow-up request sends: none, or one control pinned
ControlPins(g) == {<<>>} \cup UNION {[{c} -> BOOLEAN] : c \in get_controls(g)}

\* a follow-up request after the analysis request was answered; toggle pins
\* one control_id to new_value, counterfactual sends a map of its own
FollowUp ==
    /\ pc = "done"
    /\ \E endpoint \in Endpoints,
          session_id \in {0} \cup {s.analysis_id : s \in sessions},
          goal_id \in {"", "goal2"},
          interventions \in ControlPins(graph) :
        /\ endpoint = "toggle" => interventions # <<>>
        /\ endpoint \notin {"toggle", "counterfactual"} => (interventions = <<>> /\ goal_id = "")
        /\ last' = [op |-> "follow_up", endpoint |-> endpoint, session_id |-> session_id,
                    response |-> FollowUpResponse(endpoint, session_id, interventions,
                                                  goal_id)]
    /\ UNCHANGED <<scmVars, solver, solver_called, collapseVars, apiVars, pc>>

NextFollowUp == NextApi \/ FollowUp
SpecFollowUp == InitResponse /\ [][NextFollowUp]_vars

\* a follow-up call is answered with a result when its session id is that of
\* a cached session, and with not-found, the cache as it was, when it is not
FollowUpAnswered(endpoints) ==
    (last'.op = "follow_up" /\ last' # last /\ last'.endpoint \in endpoints) =>
        IF SessionsOf(last'.session_id) # {}
            THEN last'.response.status_code = 200
        ELSE last'.response.status_code = 404 /\ sessions' = sessions

\* C30: after any successful analysis, every follow-up endpoint called with
\* the returned analysis_id - counterfactual, assumption toggle, collapse
\* simulation, graph, optimize, certify, forecast - returns a result rather
\* than an internal error, in any order and any number of times; a follow-up
\* call with an unknown session id returns a not-found error and leaves the
\* session cache unchanged.
C30_FollowUpsAnswered == [][FollowUpAnswered(Endpoints)]_vars

\* the same for every endpoint but certify
C30_FollowUpsAnsweredButCertify == [][FollowUpAnswered(Endpoints \ {"certify"})]_vars
====
